---- MODULE Spec2Model ----
(***************************************************************************)
(* Model of the SchwabGUI numerical pipeline.                              *)
(*                                                                         *)
(* Part I   gamma-flip detector (ratio.py process_file) and the consumers  *)
(*          of its two flip values (extract_gamma_flip.py, the SPX and NDX *)
(*          chart builders).                                               *)
(*                                                                         *)
(* Numbers.  GEX values are 3-decimal floats in the code; here they are    *)
(* exact integers (one unit = one GEX unit of the examples).  A flip is a  *)
(* quotient of two such numbers and is kept as an exact rational           *)
(* [num, den] with den > 0, so that interpolation results can be compared  *)
(* exactly; binary floating-point rounding is not modelled.                *)
(***************************************************************************)
EXTENDS Integers, Sequences, FiniteSets, TLC

VARIABLES
    gex_by_strike,   \* ratio.py: Series strike -> summed GEX, strikes descending
    spot_price,      \* spotPrice of the snapshot the consumers read
    cum_gam,         \* ratio.py: flip of the cumulative (iterative) scan
    vec_gam,         \* ratio.py: flip of the vectorized scan
    flipPc,          \* next step of the flip pipeline: ratio, plot, plot_ndx, extract, done
    daily_row,       \* extract_gamma_flip.py: the row appended to the daily CSV
    spx_lines,       \* zeroDTE_plotly.py: flips drawn as red dashed lines
    ndx_lines,       \* ndx_zeroDTE_plotly.py: flips drawn as red dashed lines
    \* ---- wrapper.py and the files its scripts exchange ----
    iv_method_selected, \* wrapper.py: IV method loaded once at start-up
    run_clean,       \* wrapper.py: kClean setting loaded once at start-up
    cycle,           \* number of the current execution cycle
    wpc,             \* the script the wrapper runs next
    iv_pending,      \* IV model scripts submitted to the pool and not yet finished
    chain,           \* outputs/step_one/SPX_Option_Chain.xlsx
    spot_diff,       \* outputs/step_one/spot_price_differences.xlsx
    step_two,        \* outputs/step_two/<method>/<bucket>_<method>_results.csv
    ranked,          \* outputs/step_three/<bucket>_<method>_results_ranked.csv
    daily,           \* outputs/gammaflip/<day>/gamma_flip_<method>.csv rows
    ran,             \* post-IV scripts that executed in the current cycle
    rank_aborted,    \* ranking.py ended by SystemExit in the current cycle
    iv_method_config, \* configs/settings/iv_method_config.json: its "value"
    saves,           \* number of times the control page saved an IV method
    files,           \* CSV files of outputs/step_two: path and the script whose rows it holds
    \* ---- the IV model scripts (brent_bs.py, grok.py, hybrid_one.py) ----
    strategy,        \* the IV model script that runs: brent_bs, grok, hybrid_one
    row,             \* the contract (one row of the option-chain workbook)
    ivPc,            \* position of the script: rows, save, done
    market_price,    \* process_row: the price handed to the solver
    iv,              \* process_row: the implied volatility the solver returned
    greeks,          \* process_row: what calculate_greeks returned
    results,         \* the script's list of processed rows
    skipped_rows,    \* the script's list of skipped rows
    written,         \* the bucket CSV was written by this run
    skipped_saved,   \* the skipped-rows CSV was written by this run
    rows_done,       \* rows of the workbook the loop has been through
    log,             \* warnings and errors logged by the processing function
    \* ---- one call of a numerical function ----
    call,            \* the function called and its arguments
    ret,             \* what it returned; Pending before the call
    \* ---- CC_page_ctrl.py: the Start and End buttons ----
    p2_index_lineedit,   \* the index chosen in the drop menu
    wrapper_process,     \* handle of the SPX or NDX wrapper; 0 is None
    wrapper_process_spx, \* handle of the SPX wrapper started by BOTH; 0 is None
    wrapper_process_ndx, \* handle of the NDX wrapper started by BOTH; 0 is None
    processes,           \* wrapper processes that are running
    launched,            \* number of wrapper processes launched so far
    message              \* title of the last message box shown

flipVars == <<gex_by_strike, spot_price, cum_gam, vec_gam, flipPc,
              daily_row, spx_lines, ndx_lines>>

wrapVars == <<iv_method_selected, run_clean, cycle, wpc, iv_pending, chain,
              spot_diff, step_two, ranked, daily, ran, rank_aborted,
              iv_method_config, saves, files>>

ivVars == <<strategy, row, ivPc, market_price, iv, greeks, results,
            skipped_rows, written, skipped_saved, rows_done, log>>

fnVars == <<call, ret>>

guiVars == <<p2_index_lineedit, wrapper_process, wrapper_process_spx,
             wrapper_process_ndx, processes, launched, message>>

vars == <<flipVars, wrapVars, ivVars, fnVars, guiVars>>

----------------------------------------------------------------------------
(* Bounds of the flip model *)

\* largest number of distinct strikes in one file
MaxStrikes == 4

\* the strike axis starts at 102, the lowest strike of the documented example
StrikeUniverse == 102 .. (101 + MaxStrikes)

\* per-strike aggregated GEX values a file may hold
GexValues == {-50, -40, -30, -10, 0, 20, 50}

\* spot prices of the snapshot
SpotPriceValues == {100, 500, 1000, 3000}

----------------------------------------------------------------------------
(* Exact rationals and the null flip *)

None == [isNone |-> TRUE, num |-> 0, den |-> 1]

Rat(n, d) == IF d < 0 THEN [isNone |-> FALSE, num |-> -n, den |-> -d]
                      ELSE [isNone |-> FALSE, num |-> n, den |-> d]

RatEq(a, b) == /\ a.isNone = b.isNone
               /\ a.num * b.den = b.num * a.den

\* lo <= a <= hi for integers lo, hi and a numeric rational a
RatBetween(lo, a, hi) == /\ lo * a.den <= a.num
                         /\ a.num <= hi * a.den

Sign(x) == IF x > 0 THEN 1 ELSE IF x < 0 THEN -1 ELSE 0

----------------------------------------------------------------------------
(* ratio.py process_file: the two gamma-flip scans *)

\* the strikes of a set, highest first (sort_index(ascending=False))
RECURSIVE SortDesc(_)
SortDesc(S) ==
    IF S = {} THEN <<>>
    ELSE LET m == CHOOSE x \in S : \A y \in S : y <= x
         IN  <<m>> \o SortDesc(S \ {m})

\* gex_by_strike.cumsum()
RECURSIVE CumSum(_)
CumSum(s) ==
    IF Len(s) = 0 THEN <<>>
    ELSE LET front == CumSum(SubSeq(s, 1, Len(s) - 1))
         IN  Append(front, (IF Len(front) = 0 THEN 0 ELSE front[Len(front)])
                           + s[Len(s)].GEX)

\* Interpolate with the fraction taken from the current instead of the previous sum
InterpolateFromCurr(prevStrike, prevCum, currStrike, currCum) ==
    Rat(prevStrike * (prevCum - currCum) - currCum * (prevStrike - currStrike),
        prevCum - currCum)

\* Interpolate with the fraction added to the previous strike
InterpolateOutward(prevStrike, prevCum, currStrike, currCum) ==
    Rat(prevStrike * (prevCum - currCum) + prevCum * (prevStrike - currStrike),
        prevCum - currCum)

\* fraction = prev / (prev - curr); flip = prevStrike - fraction * (prevStrike - currStrike)
Interpolate(prevStrike, prevCum, currStrike, currCum) ==
    Rat(prevStrike * (prevCum - currCum) - prevCum * (prevStrike - currStrike),
        prevCum - currCum)

\* the for-loop of the cumulative method, from item i on
RECURSIVE CumLoop(_, _, _)
CumLoop(series, cumulative, i) ==
    IF i > Len(cumulative) THEN None
    ELSE IF i > 1 /\ cumulative[i - 1] > 0 /\ cumulative[i] < 0
         THEN Interpolate(series[i - 1].strikePrice, cumulative[i - 1],
                          series[i].strikePrice, cumulative[i])
         ELSE CumLoop(series, cumulative, i + 1)

CumScan(series) == CumLoop(series, CumSum(series), 1)

\* np.where(np.diff(np.sign(totalGamma)))[0]
ZeroCrossIdx(totalGamma) ==
    {i \in 1 .. (Len(totalGamma) - 1) :
        Sign(totalGamma[i + 1]) - Sign(totalGamma[i]) # 0}

VecScan(series) ==
    LET totalGamma == CumSum(series)
        idx == ZeroCrossIdx(totalGamma)
    IN  IF idx # {}
        THEN LET i == CHOOSE j \in idx : \A k \in idx : j <= k
             IN  Interpolate(series[i].strikePrice, totalGamma[i],
                             series[i + 1].strikePrice, totalGamma[i + 1])
        ELSE None

----------------------------------------------------------------------------
(* Consumers of a flip value *)

\* extract_gamma_flip.py: a flip outside [spot - 350, spot + 350] becomes None
ExtractBand == 350

ExtractKeep(flip, spot) ==
    IF flip.isNone THEN None
    ELSE IF RatBetween(spot - ExtractBand, flip, spot + ExtractBand)
         THEN flip ELSE None

\* zeroDTE_plotly.py: plotted when abs(flip - spot) <= 500
SpxPlotBand == 500

SpxPlots(flip, spot) ==
    /\ ~flip.isNone
    /\ RatBetween(spot - SpxPlotBand, flip, spot + SpxPlotBand)

\* ndx_zeroDTE_plotly.py: plotted when flip >= 0.05 * spot_price
NdxPlots(flip, spot) ==
    /\ ~flip.isNone
    /\ 100 * flip.num >= 5 * spot * flip.den

----------------------------------------------------------------------------
(* Files the scans are run on: one summed GEX per strike, strikes descending *)

SeriesOf(f) ==
    LET order == SortDesc(DOMAIN f)
    IN  [i \in 1 .. Len(order) |-> [strikePrice |-> order[i], GEX |-> f[order[i]]]]

AllSeries ==
    UNION {{SeriesOf(f) : f \in [S -> GexValues]} :
              S \in (SUBSET StrikeUniverse) \ {{}}}

----------------------------------------------------------------------------
(* Values of a workbook cell and of a solver result.                        *)
(*                                                                         *)
(* Units: prices, spot and strike in cents; T in thousandths of a year;    *)
(* SOFR in thousandths; a volatility in millionths (1e-6 is 1, 10 is       *)
(* 10000000).                                                              *)

\* Python None: row.get on a column the workbook lacks, or a function's None
PyNone == [k |-> "None", v |-> 0]

\* float NaN: an empty workbook cell, or numpy.nan
NaN == [k |-> "NaN", v |-> 0]

\* a number
Num(x) == [k |-> "num", v |-> x]

\* the volatility a root finder converged to: positive, inside the bracket
\* (brentq) or not above max_sigma (newton); its digits are not modelled
Root == [k |-> "root", v |-> 0]

\* the ValueError brentq raises when f(a) and f(b) have the same sign
ValueError == [k |-> "ValueError", v |-> 0]

\* the IV scripts at rest, for the specifications that do not run them
IvIdle ==
    /\ strategy = "none"
    /\ row = [putCall |-> "CALL", spotPrice |-> PyNone, strikePrice |-> PyNone,
              T |-> PyNone, SOFR |-> PyNone, mid |-> PyNone, mark |-> PyNone,
              last |-> PyNone, expirationDate |-> "today"]
    /\ ivPc = "idle"
    /\ market_price = PyNone
    /\ iv = PyNone
    /\ greeks = "None"
    /\ results = <<>>
    /\ skipped_rows = <<>>
    /\ written = FALSE
    /\ skipped_saved = FALSE
    /\ rows_done = 0
    /\ log = {}

\* the result of a call that has not been made yet
Pending == [k |-> "pending", v |-> 0]

\* no function call under study
FnIdle ==
    /\ call = [fn |-> "none"]
    /\ ret = Pending

\* the wrapper part at rest, for the specifications that do not run it
WrapIdle ==
    /\ iv_method_selected = "All"
    /\ run_clean = TRUE
    /\ cycle = 1
    /\ wpc = "idle"
    /\ iv_pending = {}
    /\ chain = [snap |-> 0, hasSpot |-> FALSE]
    /\ spot_diff = 0
    /\ step_two = [s \in {"brent_bs", "grok", "hybrid_one"} |-> [snap |-> 0, expoIn |-> 0]]
    /\ ranked = [s \in {"brent_bs", "grok", "hybrid_one"} |->
                    [snap |-> 0, rankedIn |-> 0, flipSnap |-> 0, flipIn |-> 0]]
    /\ daily = {}
    /\ ran = {}
    /\ rank_aborted = FALSE
    /\ iv_method_config = "All"
    /\ saves = 0
    /\ files = {}

\* the control page at rest
GuiIdle ==
    /\ p2_index_lineedit = ""
    /\ wrapper_process = 0
    /\ wrapper_process_spx = 0
    /\ wrapper_process_ndx = 0
    /\ processes = {}
    /\ launched = 0
    /\ message = ""

\* the flip part at rest
FlipIdle ==
    /\ gex_by_strike = <<>>
    /\ spot_price = 0
    /\ cum_gam = None
    /\ vec_gam = None
    /\ flipPc = "idle"
    /\ daily_row = [written |-> FALSE, GammaFlipCum |-> None, GammaFlipVec |-> None]
    /\ spx_lines = {}
    /\ ndx_lines = {}

InitFlip ==
    /\ WrapIdle
    /\ IvIdle
    /\ FnIdle
    /\ GuiIdle
    /\ gex_by_strike \in AllSeries
    /\ spot_price \in SpotPriceValues
    /\ cum_gam = None
    /\ vec_gam = None
    /\ flipPc = "ratio"
    /\ daily_row = [written |-> FALSE, GammaFlipCum |-> None, GammaFlipVec |-> None]
    /\ spx_lines = {}
    /\ ndx_lines = {}

\* ratio.py process_file
ProcessFile ==
    /\ flipPc = "ratio"
    /\ cum_gam' = CumScan(gex_by_strike)
    /\ vec_gam' = VecScan(gex_by_strike)
    /\ flipPc' = "plot"
    /\ UNCHANGED <<gex_by_strike, spot_price, daily_row, spx_lines, ndx_lines>>
    /\ UNCHANGED <<wrapVars, ivVars, fnVars, guiVars>>

\* zeroDTE_plotly.py create_plotly_figure, greek_name = "GEX"
SpxCreatePlotlyFigure ==
    /\ flipPc = "plot"
    /\ spx_lines' = {f \in {cum_gam, vec_gam} : SpxPlots(f, spot_price)}
    /\ flipPc' = "plot_ndx"
    /\ UNCHANGED <<gex_by_strike, spot_price, cum_gam, vec_gam, daily_row, ndx_lines>>
    /\ UNCHANGED <<wrapVars, ivVars, fnVars, guiVars>>

\* ndx_zeroDTE_plotly.py create_plotly_figure, greek_name = "GEX"
NdxCreatePlotlyFigure ==
    /\ flipPc = "plot_ndx"
    /\ ndx_lines' = {f \in {cum_gam, vec_gam} : NdxPlots(f, spot_price)}
    /\ flipPc' = "extract"
    /\ UNCHANGED <<gex_by_strike, spot_price, cum_gam, vec_gam, daily_row, spx_lines>>
    /\ UNCHANGED <<wrapVars, ivVars, fnVars, guiVars>>

\* extract_gamma_flip.py extract_gamma_flip_values and the append of its row
ExtractGammaFlipValues ==
    /\ flipPc = "extract"
    /\ LET c == ExtractKeep(cum_gam, spot_price)
           v == ExtractKeep(vec_gam, spot_price)
       IN  daily_row' = IF ~c.isNone \/ ~v.isNone
                        THEN [written |-> TRUE, GammaFlipCum |-> c, GammaFlipVec |-> v]
                        ELSE daily_row
    /\ flipPc' = "done"
    /\ UNCHANGED <<gex_by_strike, spot_price, cum_gam, vec_gam, spx_lines, ndx_lines>>
    /\ UNCHANGED <<wrapVars, ivVars, fnVars, guiVars>>

NextFlip ==
    \/ ProcessFile
    \/ SpxCreatePlotlyFigure
    \/ NdxCreatePlotlyFigure
    \/ ExtractGammaFlipValues

SpecFlip == InitFlip /\ [][NextFlip]_vars

----------------------------------------------------------------------------
(* wrapper.py: the execution cycle and the files its scripts hand on.       *)
(*                                                                         *)
(* A file is described by the cycle whose option-chain snapshot its rows   *)
(* were computed from (snap, 0 = the file does not exist) and by the cycle *)
(* in which each later script last rewrote it.  One expiration bucket is   *)
(* followed, the one named by expiration_config.json.                      *)

\* number of execution cycles followed
MaxCycles == 2

Methods == {"brent_bs", "grok", "hybrid_one"}

\* wrapper.py iv_model_scripts_all, abso_expo.py/ranking.py/ratio.py iv_method_mapping
iv_method_mapping ==
    [m \in {"Brent Black Scholes", "Grok", "Hybrid_one"} |->
        IF m = "Brent Black Scholes" THEN "brent_bs"
        ELSE IF m = "Grok" THEN "grok" ELSE "hybrid_one"]

\* values iv_method_config.json may hold; "Unrecognised" stands for any other string
IvMethodValues == {"All", "Brent Black Scholes", "Grok", "Hybrid_one", "Unrecognised"}

\* run_iv_models_parallel: selected_scripts
SelectedScripts ==
    IF iv_method_selected = "All" THEN Methods
    ELSE IF iv_method_selected \in DOMAIN iv_method_mapping
         THEN {iv_method_mapping[iv_method_selected]}
         ELSE {}

\* the IV-method filter of abso_expo.py, ranking.py and ratio.py; each script
\* loads iv_method_config.json when it starts; an unmapped method keeps every file
MethodMatches(s) ==
    \/ iv_method_config = "All"
    \/ iv_method_config \notin DOMAIN iv_method_mapping
    \/ iv_method_mapping[iv_method_config] = s

\* the expiration bucket followed, the "value" of expiration_config.json
expiration_option == "0DTE"

\* a variant in which the three scripts write the same results file
out_filename_shared(s) ==
    "outputs/step_two/" \o expiration_option \o "_results.csv"

\* brent_bs.py, grok.py, hybrid_one.py main: OUTPUT_DIR / <bucket>_<script>_results.csv
out_filename(s) ==
    "outputs/step_two/" \o s \o "/" \o expiration_option \o "_" \o s \o "_results.csv"

\* brent_bs.py, grok.py, hybrid_one.py: SKIPPED_FILE
SKIPPED_FILE(s) == "outputs/step_two/Skipped_Rows/" \o s \o "_skipped.csv"

\* save_to_csv: df.to_csv replaces whatever the path held
save_to_csv(fs, s, path) ==
    {f \in fs : f.path # path} \cup {[path |-> path, rows_of |-> s]}

\* step_two result files the post-IV scripts pick up
PickedFiles == {s \in Methods : step_two[s].snap # 0 /\ MethodMatches(s)}

\* those with the DEX/GEX/VEX/CEX columns ranking.py and ratio.py require
FilesWithExposures == {s \in PickedFiles : step_two[s].expoIn # 0}

InitWrapper ==
    /\ FlipIdle
    /\ IvIdle
    /\ FnIdle
    /\ GuiIdle
    /\ iv_method_config \in IvMethodValues
    /\ iv_method_selected = iv_method_config
    /\ saves = 0
    /\ files = {}
    /\ run_clean \in BOOLEAN
    /\ cycle = 1
    /\ wpc = "spx_chain"
    /\ iv_pending = {}
    /\ chain = [snap |-> 0, hasSpot |-> FALSE]
    /\ spot_diff = 0
    /\ step_two = [s \in Methods |-> [snap |-> 0, expoIn |-> 0]]
    /\ ranked = [s \in Methods |-> [snap |-> 0, rankedIn |-> 0, flipSnap |-> 0, flipIn |-> 0]]
    /\ daily = {}
    /\ ran = {}
    /\ rank_aborted = FALSE

\* data_retrieval/spx_chain.py: a failed request or an empty answer leaves the
\* previous workbook in place; a saved workbook has no spotPrice column yet
SpxChain ==
    /\ wpc = "spx_chain"
    /\ \E ok \in BOOLEAN :
          chain' = IF ok THEN [snap |-> cycle, hasSpot |-> FALSE] ELSE chain
    /\ wpc' = "spot_prices"
    /\ UNCHANGED <<iv_method_selected, run_clean, cycle, iv_pending, spot_diff,
                   step_two, ranked, daily, ran, rank_aborted>>
    /\ UNCHANGED <<iv_method_config, saves, files>>
    /\ UNCHANGED <<flipVars, ivVars, fnVars, guiVars>>

\* data_retrieval/spot_prices.py: returns early without the workbook or without
\* all quotes; the two saves fail independently of each other
SpotPrices ==
    /\ wpc = "spot_prices"
    /\ \E outcome \in {"ok", "no_quotes", "chain_save_failed", "diff_save_failed"} :
          IF chain.snap = 0 \/ outcome = "no_quotes"
          THEN UNCHANGED <<chain, spot_diff>>
          ELSE /\ chain' = IF outcome # "chain_save_failed"
                           THEN [chain EXCEPT !.hasSpot = TRUE] ELSE chain
               /\ spot_diff' = IF outcome # "diff_save_failed" THEN cycle ELSE spot_diff
    /\ wpc' = "iv_start"
    /\ UNCHANGED <<iv_method_selected, run_clean, cycle, iv_pending,
                   step_two, ranked, daily, ran, rank_aborted>>
    /\ UNCHANGED <<iv_method_config, saves, files>>
    /\ UNCHANGED <<flipVars, ivVars, fnVars, guiVars>>

\* run_iv_models_parallel up to the submission of the scripts: with no script
\* selected ThreadPoolExecutor(max_workers=0) raises and the wrapper ends
RunIvModelsParallel ==
    /\ wpc = "iv_start"
    /\ IF SelectedScripts = {}
       THEN /\ wpc' = "crashed"
            /\ UNCHANGED iv_pending
       ELSE /\ wpc' = "iv"
            /\ iv_pending' = SelectedScripts
    /\ UNCHANGED <<iv_method_selected, run_clean, cycle, chain, spot_diff,
                   step_two, ranked, daily, ran, rank_aborted>>
    /\ UNCHANGED <<iv_method_config, saves, files>>
    /\ UNCHANGED <<flipVars, ivVars, fnVars, guiVars>>

\* one IV model script (brent_bs.py, grok.py, hybrid_one.py) run by the pool:
\* it writes its results file only when some row was solved for the bucket,
\* and its skipped-rows file only when some row was skipped; without the
\* workbook or its spotPrice column no row is solved
IvModelScript(s) ==
    /\ wpc = "iv"
    /\ s \in iv_pending
    /\ \E solved \in BOOLEAN, skipped \in BOOLEAN :
          LET saved == solved /\ chain.snap # 0 /\ chain.hasSpot
              withResults == IF saved THEN save_to_csv(files, s, out_filename(s))
                             ELSE files
          IN  /\ step_two' = IF saved
                             THEN [step_two EXCEPT ![s] = [snap |-> chain.snap, expoIn |-> 0]]
                             ELSE step_two
              /\ files' = IF skipped /\ chain.snap # 0
                          THEN save_to_csv(withResults, s, SKIPPED_FILE(s))
                          ELSE withResults
    /\ iv_pending' = iv_pending \ {s}
    /\ wpc' = IF iv_pending \ {s} = {} THEN "abso_expo" ELSE "iv"
    /\ UNCHANGED <<iv_method_selected, run_clean, cycle, chain, spot_diff,
                   ranked, daily, ran, rank_aborted>>
    /\ UNCHANGED <<iv_method_config, saves>>
    /\ UNCHANGED <<flipVars, ivVars, fnVars, guiVars>>

\* abso_expo.py calculate_total_exposure: every picked file is rewritten with
\* exposure columns computed from the rows it holds
AbsoExpo ==
    /\ wpc = "abso_expo"
    /\ step_two' = [s \in Methods |->
                      IF s \in PickedFiles THEN [step_two[s] EXCEPT !.expoIn = cycle]
                      ELSE step_two[s]]
    /\ ran' = ran \cup {"abso_expo"}
    /\ wpc' = IF run_clean THEN "clean" ELSE "ranking"
    /\ UNCHANGED <<iv_method_selected, run_clean, cycle, iv_pending, chain, spot_diff,
                   ranked, daily, rank_aborted>>
    /\ UNCHANGED <<iv_method_config, saves, files>>
    /\ UNCHANGED <<flipVars, ivVars, fnVars, guiVars>>

\* clean.py, run unless kClean is "No"; its *_clean.csv copies are not followed
Clean ==
    /\ wpc = "clean"
    /\ ran' = ran \cup {"clean"}
    /\ wpc' = "ranking"
    /\ UNCHANGED <<iv_method_selected, run_clean, cycle, iv_pending, chain, spot_diff,
                   step_two, ranked, daily, rank_aborted>>
    /\ UNCHANGED <<iv_method_config, saves, files>>
    /\ UNCHANGED <<flipVars, ivVars, fnVars, guiVars>>

\* ranking.py rank_all_exposures: the first file that passes the column check
\* calls extract_es_multiplier, whose SystemExit no handler catches; otherwise
\* one ranked file per picked file.  run_script logs the failure and returns.
Ranking ==
    /\ wpc = "ranking"
    /\ IF FilesWithExposures # {} /\ spot_diff = 0
       THEN /\ rank_aborted' = TRUE
            /\ UNCHANGED ranked
       ELSE /\ UNCHANGED rank_aborted
            /\ ranked' = [s \in Methods |->
                            IF s \in FilesWithExposures
                            THEN [snap |-> step_two[s].snap, rankedIn |-> cycle,
                                  flipSnap |-> 0, flipIn |-> 0]
                            ELSE ranked[s]]
    /\ ran' = ran \cup {"ranking"}
    /\ wpc' = "ratio"
    /\ UNCHANGED <<iv_method_selected, run_clean, cycle, iv_pending, chain, spot_diff,
                   step_two, daily>>
    /\ UNCHANGED <<iv_method_config, saves, files>>
    /\ UNCHANGED <<flipVars, ivVars, fnVars, guiVars>>

\* ratio.py calculate_all_greek_totals: flips of every picked file, copied by
\* update_ranked_file into the ranked file of the same name when it exists
Ratio ==
    /\ wpc = "ratio"
    /\ ranked' = [s \in Methods |->
                    IF s \in FilesWithExposures /\ ranked[s].snap # 0
                    THEN [ranked[s] EXCEPT !.flipSnap = step_two[s].snap, !.flipIn = cycle]
                    ELSE ranked[s]]
    /\ ran' = ran \cup {"ratio"}
    /\ wpc' = "historical"
    /\ UNCHANGED <<iv_method_selected, run_clean, cycle, iv_pending, chain, spot_diff,
                   step_two, daily, rank_aborted>>
    /\ UNCHANGED <<iv_method_config, saves, files>>
    /\ UNCHANGED <<flipVars, ivVars, fnVars, guiVars>>

\* historical_rankings.py; its history file is not followed
HistoricalRankings ==
    /\ wpc = "historical"
    /\ ran' = ran \cup {"historical"}
    /\ wpc' = "plot"
    /\ UNCHANGED <<iv_method_selected, run_clean, cycle, iv_pending, chain, spot_diff,
                   step_two, ranked, daily, rank_aborted>>
    /\ UNCHANGED <<iv_method_config, saves, files>>
    /\ UNCHANGED <<flipVars, ivVars, fnVars, guiVars>>

\* zeroDTE_plotly.py; its HTML charts are not followed
ZeroDtePlotly ==
    /\ wpc = "plot"
    /\ ran' = ran \cup {"plot"}
    /\ wpc' = "extract"
    /\ UNCHANGED <<iv_method_selected, run_clean, cycle, iv_pending, chain, spot_diff,
                   step_two, ranked, daily, rank_aborted>>
    /\ UNCHANGED <<iv_method_config, saves, files>>
    /\ UNCHANGED <<flipVars, ivVars, fnVars, guiVars>>

\* extract_gamma_flip.py main: exits without the spot price or the SPX-ES diff;
\* otherwise appends one row per step_three file that has the flip columns and
\* an in-band flip (inBand: the files whose flip passes the band check)
ExtractGammaFlip ==
    /\ wpc = "extract"
    /\ LET withFlip == {s \in Methods : ranked[s].snap # 0 /\ ranked[s].flipIn # 0}
       IN  IF chain.snap = 0 \/ ~chain.hasSpot \/ spot_diff = 0
           THEN UNCHANGED daily
           ELSE \E inBand \in SUBSET withFlip :
                   daily' = daily \cup
                       {[method |-> s, snap |-> ranked[s].flipSnap, appendedIn |-> cycle] :
                           s \in inBand}
    /\ ran' = ran \cup {"extract"}
    /\ wpc' = "sleep"
    /\ UNCHANGED <<iv_method_selected, run_clean, cycle, iv_pending, chain, spot_diff,
                   step_two, ranked, rank_aborted>>
    /\ UNCHANGED <<iv_method_config, saves, files>>
    /\ UNCHANGED <<flipVars, ivVars, fnVars, guiVars>>

\* time.sleep(interval_seconds) and the next turn of the while loop
Sleep ==
    /\ wpc = "sleep"
    /\ cycle < MaxCycles
    /\ cycle' = cycle + 1
    /\ ran' = {}
    /\ rank_aborted' = FALSE
    /\ wpc' = "spx_chain"
    /\ UNCHANGED <<iv_method_selected, run_clean, iv_pending, chain, spot_diff,
                   step_two, ranked, daily>>
    /\ UNCHANGED <<iv_method_config, saves, files>>
    /\ UNCHANGED <<flipVars, ivVars, fnVars, guiVars>>

NextWrapper ==
    \/ SpxChain
    \/ SpotPrices
    \/ RunIvModelsParallel
    \/ \E s \in Methods : IvModelScript(s)
    \/ AbsoExpo
    \/ Clean
    \/ Ranking
    \/ Ratio
    \/ HistoricalRankings
    \/ ZeroDtePlotly
    \/ ExtractGammaFlip
    \/ Sleep

SpecWrapper == InitWrapper /\ [][NextWrapper]_vars

\* the loop of main is not held up: a script that can run does run
SpecWrapperLive == SpecWrapper /\ WF_vars(NextWrapper)

----------------------------------------------------------------------------
(* The control page rewrites a settings file while the wrapper runs *)

\* number of times the control page saves an IV method during the run
MaxSaves == 1

\* CC_page_ctrl.py setup_iv_menu: the IV methods of the drop menu
iv_methods == {"All", "Hybrid_one", "Brent Black Scholes", "Grok"}

\* CC_page_ctrl.py set_iv_method: the drop menu of the control page saves its
\* choice to iv_method_config.json at once, whatever the wrapper is doing
set_iv_method(val) ==
    /\ saves < MaxSaves
    /\ saves' = saves + 1
    /\ iv_method_config' = val
    /\ UNCHANGED <<iv_method_selected, run_clean, cycle, wpc, iv_pending, chain,
                   spot_diff, step_two, ranked, daily, ran, rank_aborted, files>>
    /\ UNCHANGED <<flipVars, ivVars, fnVars, guiVars>>

NextSettings ==
    \/ NextWrapper
    \/ \E val \in iv_methods : set_iv_method(val)

SpecSettings == InitWrapper /\ [][NextSettings]_vars

----------------------------------------------------------------------------
(* The IV model scripts: brent_bs.py, grok.py, hybrid_one.py.               *)
(*                                                                         *)
(* One contract is followed through one run of one script.  The Black-     *)
(* Scholes price is not evaluated digit by digit: what the solvers depend  *)
(* on is its value at the two ends of a bracket.  At sigma = 1e-6 the      *)
(* formula gives, in double precision, the sigma -> 0 limit                *)
(* max(S - K*exp(-rT), 0) for a call and max(K*exp(-rT) - S, 0) for a put  *)
(* (the strikes of the grid are 10% away from spot); above it the price    *)
(* grows with sigma by the option's time value.                            *)

Strategies == {"brent_bs", "grok", "hybrid_one"}

\* the contracts of the grid: strike 100.00, spot 90.00 or 110.00,
\* T = 0 or 0.1 year, SOFR = 0 or 5%
SpotValues == {Num(9000), Num(11000)}
StrikeValues == {Num(10000)}
TValues == {Num(0), Num(100)}
SofrValues == {Num(0), Num(50)}

\* quotes: absent, empty, negative, zero, below / at / above the intrinsic
\* value 10.00 of the in-the-money contracts (9.75 lies between the
\* discounted intrinsic value 9.50 of the put and 10.00)
MidValues == {PyNone, NaN, Num(-100), Num(0), Num(500), Num(1500)}
MarkValues == {PyNone, NaN, Num(0), Num(975)}
LastValues == {PyNone, NaN, Num(-100), Num(0), Num(500), Num(975), Num(1000), Num(1500)}

Contracts ==
    [putCall : {"CALL", "PUT"}, spotPrice : SpotValues, strikePrice : StrikeValues,
     T : TValues, SOFR : SofrValues, mid : MidValues, mark : MarkValues,
     last : LastValues, expirationDate : {"today", "later", "unparseable"}]

\* Python truth value: None and 0 are false, NaN and every other number true
PyTruthy(x) == x.k = "NaN" \/ (x.k = "num" /\ x.v # 0)

\* Python a or b
PyOr(a, b) == IF PyTruthy(a) THEN a ELSE b

\* pandas.isnull
pd_isnull(x) == x.k \in {"None", "NaN"}

\* x <= 0 on floats: false for NaN
LeqZero(x) == x.k = "num" /\ x.v <= 0

\* K * exp(-r*T); exp(-0.05 * 0.1) = 0.995
DiscountedStrike(K, T, r) ==
    IF r = 0 \/ T = 0 THEN K ELSE (K * 995) \div 1000

\* max(0, S - K) for a call, max(0, K - S) for a put
IntrinsicValue(S, K, option_type) ==
    IF option_type = "CALL"
    THEN (IF S > K THEN S - K ELSE 0)
    ELSE (IF K > S THEN K - S ELSE 0)

\* time value of the grid's options for T = 0.1 at the bracket ends the
\* solvers evaluate: nothing at 1e-6, about 8% of spot at sigma = 1
\* (7.6 .. 8.8 for spot 90 and 110), about 80% of spot at sigma = 10
TimeValue(S, sigma) ==
    IF sigma <= 1 THEN 0
    ELSE IF sigma < 10000000 THEN (8 * S) \div 100
    ELSE (80 * S) \div 100

\* the Black-Scholes price at a bracket end
black_scholes_price(S, K, T, r, sigma, option_type) ==
    IntrinsicValue(S, DiscountedStrike(K, T, r), option_type) + TimeValue(S, sigma)

\* scipy.optimize.brentq(f, a, b) given f(a) and f(b)
brentq(fa, fb, a, b) ==
    IF fa = 0 THEN Num(a)
    ELSE IF fb = 0 THEN Num(b)
    ELSE IF Sign(fa) = Sign(fb) THEN ValueError
    ELSE Root

\* calculate_implied_volatility without the test market_price <= 0
calculate_implied_volatility_any_price(market, S, K, T, r, option_type) ==
    IF S <= 0 \/ K <= 0 \/ T <= 0 THEN PyNone
    ELSE LET x == brentq(black_scholes_price(S, K, T, r, 1, option_type) - market,
                         black_scholes_price(S, K, T, r, 10000000, option_type) - market,
                         1, 10000000)
         IN  IF x = ValueError THEN PyNone ELSE x

\* brent_bs.py calculate_implied_volatility: brentq over [1e-6, 10]
calculate_implied_volatility(market, S, K, T, r, option_type) ==
    IF S <= 0 \/ K <= 0 \/ T <= 0 \/ market <= 0 THEN PyNone
    ELSE LET x == brentq(black_scholes_price(S, K, T, r, 1, option_type) - market,
                         black_scholes_price(S, K, T, r, 10000000, option_type) - market,
                         1, 10000000)
         IN  IF x = ValueError THEN PyNone ELSE x

\* brent_bs.py calculate_greeks: a dict of nulls when T <= 0 or sigma <= 0
brent_calculate_greeks(S, K, T, r, sigma, option_type) ==
    IF T <= 0 \/ LeqZero(sigma) THEN "null" ELSE "num"

\* grok.py implied_volatility: newton from 0.5.  The iterates are not
\* modelled: the call either stops at a number, kept when it is positive
\* and not above max_sigma, or fails, and then the result is nan.
implied_volatility(price, S, K, T, r, option_type) ==
    IF price.k = "NaN" THEN {NaN} ELSE {Root, NaN}

\* grok.py calculate_greeks
grok_calculate_greeks(S, K, T, r, sigma, option_type) ==
    IF LeqZero(sigma) \/ S <= 0 \/ K <= 0 \/ T <= 0 THEN "None" ELSE "num"

\* ln(S / K) in millionths: ln(0.9) and ln(1.1)
LogMoneyness(S, K) ==
    IF S = K THEN 0 ELSE IF S < K THEN -105361 ELSE 95310

\* hybrid_one.py closed_form_iv; sqrt(2*pi/T) = 7.927 and
\* sqrt(T) = 0.316228 for T = 0.1
closed_form_iv(S, K, T, r, option_type, observed_price) ==
    IF LeqZero(observed_price) \/ S <= 0 \/ K <= 0 \/ T <= 0 THEN NaN
    ELSE IF observed_price.k = "NaN" THEN NaN
    ELSE IF observed_price.v <= IntrinsicValue(S, K, option_type) THEN Num(0)
    ELSE LET volatility_estimate == ((observed_price.v * 7927) \div S) * 1000
             moneyness == LogMoneyness(S, K)
             estimate == volatility_estimate
                          + (IF option_type = "CALL" THEN moneyness ELSE -moneyness)
                          + (r * 316228) \div 1000
         IN  Num(IF estimate > 0 THEN estimate ELSE 0)

\* hybrid_one.py refine_iv line 87: max(1e-6, initial_iv * 0.5); Python's
\* max keeps its first argument when the second is NaN
refine_lower_bound(initial_iv) ==
    IF initial_iv.k = "NaN" THEN 1
    ELSE IF initial_iv.v \div 2 > 1 THEN initial_iv.v \div 2 ELSE 1

\* hybrid_one.py refine_iv line 88: min(5.0, max(1.0, initial_iv * 1.5))
refine_upper_bound(initial_iv) ==
    LET widened == IF initial_iv.k = "NaN" THEN 1000000
                   ELSE IF (3 * initial_iv.v) \div 2 > 1000000
                        THEN (3 * initial_iv.v) \div 2 ELSE 1000000
    IN  IF widened < 5000000 THEN widened ELSE 5000000

\* hybrid_one.py refine_iv: the values it may return.  With a NaN estimate
\* or price the objective is NaN and brentq raises; over [1e-6, 1] the ends
\* decide; over a bracket built around a positive estimate the root is
\* either inside (returned) or outside (the estimate is returned).
refine_iv(S, K, T, r, option_type, observed_price, initial_iv) ==
    IF initial_iv.k = "NaN" \/ observed_price.k = "NaN" THEN {initial_iv}
    ELSE LET lower_bound == refine_lower_bound(initial_iv)
             upper_bound == refine_upper_bound(initial_iv)
         IN  IF lower_bound = 1 /\ upper_bound = 1000000
             THEN LET x == brentq(
                        black_scholes_price(S, K, T, r, lower_bound, option_type)
                            - observed_price.v,
                        black_scholes_price(S, K, T, r, upper_bound, option_type)
                            - observed_price.v,
                        lower_bound, upper_bound)
                  IN  {IF x = ValueError THEN initial_iv ELSE x}
             ELSE {Root, initial_iv}

\* hybrid_one.py calculate_greeks: None when any of S, K, T, sigma is <= 0;
\* a NaN sigma passes the test and gives NaN Greeks
hybrid_calculate_greeks(S, K, T, r, sigma, option_type) ==
    IF S <= 0 \/ K <= 0 \/ T <= 0 \/ LeqZero(sigma) THEN "None"
    ELSE IF sigma.k = "NaN" THEN "nan" ELSE "num"

\* brent_bs.py line 178
BrentMarketPrice(c) == c.last

\* grok.py line 186
GrokMarketPrice(c) == PyOr(PyOr(c.mid, c.mark), c.last)

\* hybrid_one.py line 149
HybridMarketPrice(c) == PyOr(PyOr(c.mid, c.mark), c.last)

\* grok.py line 187, hybrid_one.py line 150: any(param is None or param <= 0)
GuardRejects(c, price) ==
    \E param \in {c.spotPrice, c.strikePrice, c.T, c.SOFR, price} :
        param.k = "None" \/ LeqZero(param)

\* largest number of rows of the workbook
MaxRows == 2

\* the rows that may follow the first one: an out-of-the-money call quoted
\* 5.00 (solvable), or quoted 0 on last only (not solvable), with each
\* kind of expiration date
FollowingContracts ==
    [putCall : {"CALL"}, spotPrice : {Num(9000)}, strikePrice : {Num(10000)},
     T : {Num(100)}, SOFR : {Num(50)}, mid : {Num(500)}, mark : {PyNone},
     last : {Num(500)}, expirationDate : {"today", "later", "unparseable"}]
    \cup
    [putCall : {"CALL"}, spotPrice : {Num(9000)}, strikePrice : {Num(10000)},
     T : {Num(100)}, SOFR : {Num(50)}, mid : {PyNone}, mark : {PyNone},
     last : {Num(0)}, expirationDate : {"today", "later", "unparseable"}]

InitIV ==
    /\ FlipIdle
    /\ WrapIdle
    /\ FnIdle
    /\ GuiIdle
    /\ strategy \in Strategies
    /\ row \in Contracts
    /\ ivPc = "rows"
    /\ market_price = PyNone
    /\ iv = PyNone
    /\ greeks = "None"
    /\ results = <<>>
    /\ skipped_rows = <<>>
    /\ written = FALSE
    /\ skipped_saved = FALSE
    /\ rows_done = 0
    /\ log = {}

\* a row of the results list; idx is the row's position in the workbook
Processed(sigma, g) ==
    [idx |-> rows_done + 1, impliedVolatility |-> sigma, greeks |-> g,
     expirationDate |-> row.expirationDate]

\* a row of the skipped list
Skipped(reason) ==
    [idx |-> rows_done + 1, skip_reason |-> reason,
     expirationDate |-> row.expirationDate]

\* for _, row in df.iterrows(): the loop takes the next row of the workbook
\* or, after the last one, leaves for the save
NextIteration ==
    /\ rows_done' = rows_done + 1
    /\ \/ /\ rows_done + 1 < MaxRows
          /\ row' \in FollowingContracts
          /\ ivPc' = "rows"
       \/ /\ row' = row
          /\ ivPc' = "save"

\* brent_bs.py brent_bs_adjusted_processing, the body of the row loop
BrentProcessRow ==
    /\ strategy = "brent_bs"
    /\ ivPc = "rows"
    /\ market_price' = BrentMarketPrice(row)
    /\ IF \E x \in {row.spotPrice, row.strikePrice, row.T, row.SOFR, market_price'} :
              pd_isnull(x)
       THEN /\ iv' = PyNone
            /\ greeks' = "None"
            /\ results' = results
            /\ skipped_rows' = Append(skipped_rows,
                                  Skipped("Skipped due to missing or invalid inputs."))
       ELSE LET sigma == calculate_implied_volatility(market_price'.v, row.spotPrice.v,
                             row.strikePrice.v, row.T.v, row.SOFR.v, row.putCall)
                g == brent_calculate_greeks(row.spotPrice.v, row.strikePrice.v,
                             row.T.v, row.SOFR.v, sigma, row.putCall)
            IN  /\ iv' = sigma
                /\ IF sigma = PyNone
                   THEN /\ greeks' = "None"
                        /\ results' = results
                        /\ skipped_rows' = Append(skipped_rows,
                                              Skipped("Skipped due to failed IV calculation."))
                   ELSE /\ greeks' = g
                        /\ IF row.expirationDate = "unparseable"
                           THEN /\ results' = results
                                /\ skipped_rows' = Append(skipped_rows,
                                                      Skipped("Exception"))
                           ELSE /\ results' = Append(results, Processed(sigma, g))
                                /\ skipped_rows' = skipped_rows
    /\ NextIteration
    /\ UNCHANGED <<strategy, written, skipped_saved, log>>
    /\ UNCHANGED <<flipVars, wrapVars, fnVars, guiVars>>

\* grok.py process_row and the body of the row loop of grok_processing
GrokProcessRow ==
    /\ strategy = "grok"
    /\ ivPc = "rows"
    /\ IF row.expirationDate = "unparseable"
       THEN /\ market_price' = PyNone
            /\ iv' = PyNone
            /\ greeks' = "None"
            /\ results' = results
            /\ skipped_rows' = Append(skipped_rows, Skipped(""))
       ELSE /\ market_price' = GrokMarketPrice(row)
            /\ IF GuardRejects(row, market_price')
               THEN /\ iv' = PyNone
                    /\ greeks' = "None"
                    /\ results' = results
                    /\ skipped_rows' = Append(skipped_rows, Skipped(""))
               ELSE \E sigma \in implied_volatility(market_price', row.spotPrice.v,
                                     row.strikePrice.v, row.T.v, row.SOFR.v, row.putCall) :
                      LET g == grok_calculate_greeks(row.spotPrice.v, row.strikePrice.v,
                                     row.T.v, row.SOFR.v, sigma, row.putCall)
                      IN  /\ iv' = sigma
                          /\ IF sigma.k = "NaN"
                             THEN /\ greeks' = "None"
                                  /\ results' = results
                                  /\ skipped_rows' = Append(skipped_rows, Skipped(""))
                             ELSE /\ greeks' = g
                                  /\ IF g = "None"
                                     THEN /\ results' = results
                                          /\ skipped_rows' = Append(skipped_rows, Skipped(""))
                                     ELSE /\ results' = Append(results, Processed(sigma, g))
                                          /\ skipped_rows' = skipped_rows
    /\ NextIteration
    /\ UNCHANGED <<strategy, written, skipped_saved, log>>
    /\ UNCHANGED <<flipVars, wrapVars, fnVars, guiVars>>

\* hybrid_one.py process_row and the body of the row loop of
\* hybrid_one_processing.  A skipped row is kept only when it expires
\* today; its date is parsed again by the loop, outside process_row, and
\* the ValueError of an unparseable date ends hybrid_one_processing in its
\* outer except.
HybridProcessRow ==
    /\ strategy = "hybrid_one"
    /\ ivPc = "rows"
    /\ IF row.expirationDate = "unparseable"
       THEN /\ market_price' = PyNone
            /\ iv' = PyNone
            /\ greeks' = "None"
            /\ results' = results
            /\ skipped_rows' = skipped_rows
            /\ rows_done' = rows_done + 1
            /\ row' = row
            /\ ivPc' = "done"
            /\ log' = log \cup {"An unexpected error occurred"}
       ELSE /\ market_price' = HybridMarketPrice(row)
            /\ LET kept == IF row.expirationDate = "today"
                           THEN Append(skipped_rows, Skipped(""))
                           ELSE skipped_rows
               IN  IF GuardRejects(row, market_price')
                   THEN /\ iv' = PyNone
                        /\ greeks' = "None"
                        /\ results' = results
                        /\ skipped_rows' = kept
                   ELSE LET initial_iv == closed_form_iv(row.spotPrice.v,
                                              row.strikePrice.v, row.T.v, row.SOFR.v,
                                              row.putCall, market_price')
                        IN  \E refined_iv \in refine_iv(row.spotPrice.v,
                                              row.strikePrice.v, row.T.v, row.SOFR.v,
                                              row.putCall, market_price', initial_iv) :
                              LET g == hybrid_calculate_greeks(row.spotPrice.v,
                                           row.strikePrice.v, row.T.v, row.SOFR.v,
                                           refined_iv, row.putCall)
                              IN  /\ iv' = refined_iv
                                  /\ greeks' = g
                                  /\ IF g = "None"
                                     THEN /\ results' = results
                                          /\ skipped_rows' = kept
                                     ELSE /\ results' = Append(results,
                                                           Processed(refined_iv, g))
                                          /\ skipped_rows' = skipped_rows
            /\ NextIteration
            /\ log' = log
    /\ UNCHANGED <<strategy, written, skipped_saved>>
    /\ UNCHANGED <<flipVars, wrapVars, fnVars, guiVars>>

\* logger.warning of a batch in which nothing was solved
NothingSolvedWarning ==
    IF strategy = "brent_bs"
    THEN "No valid results to save after processing."
    ELSE "No valid rows to save after processing."

\* the end of the three processing functions: warn and return when nothing
\* was solved, else write the rows of the configured bucket (here 0DTE) if
\* there are any, then the skipped rows if there are any
SaveBuckets ==
    /\ ivPc = "save"
    /\ IF results = <<>>
       THEN /\ log' = log \cup {NothingSolvedWarning}
            /\ UNCHANGED <<written, skipped_saved>>
       ELSE /\ written' = (\E i \in 1 .. Len(results) :
                              results[i].expirationDate = "today")
            /\ skipped_saved' = (skipped_rows # <<>>)
            /\ log' = log
    /\ ivPc' = "done"
    /\ UNCHANGED <<strategy, row, market_price, iv, greeks, results, skipped_rows,
                   rows_done>>
    /\ UNCHANGED <<flipVars, wrapVars, fnVars, guiVars>>

NextIV ==
    \/ BrentProcessRow
    \/ GrokProcessRow
    \/ HybridProcessRow
    \/ SaveBuckets

SpecIV == InitIV /\ [][NextIV]_vars

----------------------------------------------------------------------------
(* Properties of the gamma-flip detector and of its consumers *)

ScanDone == flipPc # "ratio"

Cumulative == CumSum(gex_by_strike)

StrikesAre(strikes) ==
    /\ Len(gex_by_strike) = Len(strikes)
    /\ \A i \in 1 .. Len(strikes) : gex_by_strike[i].strikePrice = strikes[i]

GexAre(values) ==
    /\ Len(gex_by_strike) = Len(values)
    /\ \A i \in 1 .. Len(values) : gex_by_strike[i].GEX = values[i]

\* 103.33 to two decimals, exactly 310/3
Is103_33(flip) ==
    /\ ~flip.isNone
    /\ RatEq(flip, Rat(310, 3))
    /\ (flip.num * 100) \div flip.den = 10333

\* C1 as stated: per-strike aggregated GEX +50, +20, -10, -40 at strikes
\* 105, 104, 103, 102 makes both scans return 103.33.
C1_PerStrikeExample ==
    (ScanDone /\ StrikesAre(<<105, 104, 103, 102>>) /\ GexAre(<<50, 20, -10, -40>>))
        => (Is103_33(cum_gam) /\ Is103_33(vec_gam))

\* C1 amended: when the cumulative (running-sum) GEX values are +50, +20, -10,
\* -40 at strikes 105, 104, 103, 102, i.e. the per-strike values are +50, -30,
\* -30, -30, both scans return 104 - (20/30)*(104-103) = 103.33.
C1_CumulativeExample ==
    (ScanDone /\ StrikesAre(<<105, 104, 103, 102>>)
              /\ Cumulative = <<50, 20, -10, -40>>)
        => (Is103_33(cum_gam) /\ Is103_33(vec_gam))

C1_Witness ==
    /\ ScanDone
    /\ StrikesAre(<<105, 104, 103, 102>>)
    /\ GexAre(<<50, -30, -30, -30>>)
    /\ Is103_33(cum_gam)
    /\ Is103_33(vec_gam)

Monotonic(c) ==
    \/ \A i \in 1 .. (Len(c) - 1) : c[i] >= c[i + 1]
    \/ \A i \in 1 .. (Len(c) - 1) : c[i] <= c[i + 1]

\* a monotonic series crosses zero once when it holds a positive and a negative value
CrossesZeroOnce(c) ==
    /\ Monotonic(c)
    /\ \E i \in 1 .. Len(c) : c[i] > 0
    /\ \E j \in 1 .. Len(c) : c[j] < 0

\* C2: on every series whose cumulative series is monotonic and crosses zero
\* exactly once (in either direction, zero values included) the cumulative scan
\* and the vectorized scan return the same flip, or both none.
C2_ScansAgree ==
    (ScanDone /\ CrossesZeroOnce(Cumulative)) => RatEq(cum_gam, vec_gam)

NoOppositePair(c) ==
    \A i \in 1 .. (Len(c) - 1) :
        ~((c[i] > 0 /\ c[i + 1] < 0) \/ (c[i] < 0 /\ c[i + 1] > 0))

\* C3: when no two consecutive cumulative values have strictly opposite signs,
\* both scans return null.
C3_NoBracketNoFlip ==
    (ScanDone /\ NoOppositePair(Cumulative)) => (cum_gam.isNone /\ vec_gam.isNone)

PositiveThenNegative(c) ==
    \E i \in 1 .. Len(c) : \E j \in 1 .. Len(c) : i < j /\ c[i] > 0 /\ c[j] < 0

\* the first index whose value is positive and whose successor is negative
FirstDrop(c) ==
    CHOOSE i \in 1 .. (Len(c) - 1) :
        /\ c[i] > 0 /\ c[i + 1] < 0
        /\ \A k \in 1 .. (i - 1) : ~(c[k] > 0 /\ c[k + 1] < 0)

\* C4: when the running sum is positive at some strike and negative at a lower
\* strike, the cumulative scan returns a non-null flip, interpolated at the
\* first positive-to-negative transition.
C4_CumScanFindsFlip ==
    (ScanDone /\ PositiveThenNegative(Cumulative)) =>
        /\ ~cum_gam.isNone
        /\ \E i \in 1 .. (Len(Cumulative) - 1) :
              /\ Cumulative[i] > 0 /\ Cumulative[i + 1] < 0
              /\ i = FirstDrop(Cumulative)
              /\ RatEq(cum_gam,
                       Interpolate(gex_by_strike[i].strikePrice, Cumulative[i],
                                   gex_by_strike[i + 1].strikePrice, Cumulative[i + 1]))

InBand(flip, spot, band) == RatBetween(spot - band, flip, spot + band)

\* C5: no consumer records or plots a flip outside its two-sided band around
\* spot: 350 points for the daily extractor, 500 points for the chart builders.
C5_ConsumersDiscardOutOfBand ==
    /\ \A f \in spx_lines : InBand(f, spot_price, SpxPlotBand)
    /\ \A f \in ndx_lines : InBand(f, spot_price, SpxPlotBand)
    /\ daily_row.written =>
          /\ daily_row.GammaFlipCum.isNone
                \/ InBand(daily_row.GammaFlipCum, spot_price, ExtractBand)
          /\ daily_row.GammaFlipVec.isNone
                \/ InBand(daily_row.GammaFlipVec, spot_price, ExtractBand)

----------------------------------------------------------------------------
(* Properties of the wrapper cycle *)

\* C6: at the end of each cycle every exposure file, ranked file, flip value
\* and daily flip row that a script of this cycle rewrote or emitted was
\* computed from this cycle's option-chain snapshot.
C6_ResultsFromThisCycle ==
    wpc = "sleep" =>
        /\ \A s \in Methods : step_two[s].expoIn = cycle => step_two[s].snap = cycle
        /\ \A s \in Methods : ranked[s].rankedIn = cycle => ranked[s].snap = cycle
        /\ \A s \in Methods : ranked[s].flipIn = cycle => ranked[s].flipSnap = cycle
        /\ \A r \in daily : r.appendedIn = cycle => r.snap = cycle

\* C7: when ranking.py could not read the SPX-ES % Diff multiplier, it wrote no
\* ranked levels and none of the later scripts of the cycle executed.
C7_MissingMultiplierAbortsRun ==
    rank_aborted =>
        /\ \A s \in Methods : ranked[s].rankedIn # cycle
        /\ ran \cap {"ratio", "historical", "plot", "extract"} = {}

----------------------------------------------------------------------------
(* Properties of the IV model scripts *)

\* the row loop has processed the contract
RowDone == ivPc \in {"save", "done"}

\* a quote that is there: neither absent nor NaN
Present(x) == x.k = "num"

\* the first available of mid, mark, last
FirstAvailable(c) ==
    IF Present(c.mid) THEN c.mid ELSE IF Present(c.mark) THEN c.mark ELSE c.last

\* positive spot, strike, T, rate and market price, the market price being
\* the first available quote, the one the script solved with, and at or
\* below intrinsic value
AtOrBelowIntrinsic ==
    /\ row.spotPrice.v > 0 /\ row.strikePrice.v > 0 /\ row.T.v > 0
    /\ row.SOFR.v > 0
    /\ Present(market_price) /\ market_price.v > 0
    /\ market_price = FirstAvailable(row)
    /\ market_price.v <= IntrinsicValue(row.spotPrice.v, row.strikePrice.v, row.putCall)

\* C8: for each of the three strategies, a contract with positive spot,
\* strike, T and market price whose market price is at or below intrinsic
\* value gets an implied volatility of exactly 0.0 from the solver.
C8_AtOrBelowIntrinsicGivesZero ==
    (RowDone /\ AtOrBelowIntrinsic) => iv = Num(0)

\* a volatility that is a number
Numeric(sigma) == sigma.k \in {"num", "root"}

\* C9: in each strategy, when the market price handed to the solver is a
\* number <= 0, the contract gets no numeric implied volatility and is not
\* in the results.
C9_NonPositivePriceNeverSolved ==
    (RowDone /\ LeqZero(market_price)) =>
        /\ ~Numeric(iv)
        /\ \A i \in 1 .. Len(results) : results[i].idx # rows_done

\* grok.py has processed a contract whose negative mid is its market price,
\* and brent_bs.py one whose last is 0: each was skipped
C9_Witness ==
    /\ RowDone
    /\ LeqZero(market_price)
    /\ rows_done = 1
    /\ Len(skipped_rows) = 1
    /\ \/ strategy = "grok" /\ market_price = row.mid
       \/ strategy = "brent_bs" /\ market_price = Num(0)
       \/ strategy = "hybrid_one" /\ market_price = row.last

\* C10: in each strategy the price used to solve is the first available of
\* mid, mark, last: mid when mid is present; mark when mid is absent or NaN
\* and mark is present; last when only last is present.
C10_FirstAvailableOfMidMarkLast ==
    (RowDone /\ row.expirationDate # "unparseable") =>
        /\ Present(row.mid) => market_price = row.mid
        /\ (~Present(row.mid) /\ Present(row.mark)) => market_price = row.mark
        /\ (~Present(row.mid) /\ ~Present(row.mark) /\ Present(row.last))
               => market_price = row.last

\* max_sigma of grok.py, the sanity cap of a volatility, in millionths
SanityCap == 10000000

\* a volatility that is finite, > 0 and not above the sanity cap
ValidIv(sigma) ==
    \/ sigma.k = "root"
    \/ sigma.k = "num" /\ sigma.v > 0 /\ sigma.v <= SanityCap

\* C11: every contract written to a strategy's results has an implied
\* volatility that is finite, > 0 and not above the sanity cap; any other
\* solver value is a solve failure and is not emitted.
C11_ResultsHaveValidIv ==
    \A i \in 1 .. Len(results) : ValidIv(results[i].impliedVolatility)

----------------------------------------------------------------------------
(* Single calls of the numerical functions, on arguments drawn from small   *)
(* sets.                                                                    *)

\* closed-form estimates handed to refine_iv, in millionths: NaN, 0.0, 0.4,
\* 1.2, 8.0, 10.0 and 12.5746 (spot 110, strike 60, T 0.01, price 52.50)
EstimateValues ==
    {NaN, Num(0), Num(400000), Num(1200000), Num(8000000), Num(10000000),
     Num(12574600)}

\* signs of the objective black_scholes_price(sigma) - observed_price at
\* the two ends of the bracket; the price grows with sigma, so the sign at
\* the larger end is not below the sign at the smaller end
ObjectiveSigns(a, b) ==
    {f \in [lower : {-1, 0, 1}, upper : {-1, 0, 1}] :
        /\ a < b => (f.lower <= f.upper /\ ~(f.lower = 0 /\ f.upper = 0))
        /\ a > b => (f.lower >= f.upper /\ ~(f.lower = 0 /\ f.upper = 0))
        /\ a = b => f.lower = f.upper}

\* where brentq(f, a, b) looks for the root: between its two ends,
\* whichever is the larger
RootSpan(a, b) == IF a <= b THEN [lo |-> a, hi |-> b] ELSE [lo |-> b, hi |-> a]

\* hybrid_one.py refine_iv lines 89-94, given the objective at the two ends
\* (a NaN estimate makes the objective's caller fail inside brentq)
refine_iv_between(initial_iv, f) ==
    LET lower_bound == refine_lower_bound(initial_iv)
        upper_bound == refine_upper_bound(initial_iv)
        x == brentq(f.lower, f.upper, lower_bound, upper_bound)
    IN  IF x = ValueError
        THEN [value |-> initial_iv, span |-> RootSpan(0, 0)]
        ELSE [value |-> x, span |-> RootSpan(lower_bound, upper_bound)]

\* the calls of refine_iv
RefineCalls ==
    UNION {{[fn |-> "refine_iv", initial_iv |-> e, objective |-> f] :
               f \in ObjectiveSigns(refine_lower_bound(e), refine_upper_bound(e))} :
           e \in EstimateValues}

\* hybrid_one.py refine_iv
RefineIv ==
    /\ call.fn = "refine_iv"
    /\ ret = Pending
    /\ ret' = refine_iv_between(call.initial_iv, call.objective)
    /\ UNCHANGED call
    /\ UNCHANGED <<flipVars, wrapVars, ivVars, guiVars>>

\* the seven Greeks
GreekNames == {"delta", "gamma", "vega", "theta", "rho", "vanna", "charm"}

\* the scripts that define calculate_greeks
GreekVariants ==
    {"brent_bs", "ndx_brent_bs", "grok", "ndx_grok", "hybrid_one", "ndx_hybrid_one"}

\* the value of a closed-form Black-Scholes expression; its digits are not
\* modelled, only that it is a number, or NaN when sigma is NaN
Formula(sigma) == IF sigma.k = "NaN" THEN NaN ELSE [k |-> "formula", v |-> 0]

\* the near-expiry gamma, 1e-5
GammaClamp == [k |-> "1e-5", v |-> 0]

\* the dict of seven nulls
AllNull == [g \in GreekNames |-> PyNone]

\* brent_bs.py line 90:
\* delta = 1.0 if S > K else 0.0 if option_type == "CALL" else -1.0
near_expiry_delta(S, K, option_type) ==
    IF S > K THEN Num(1) ELSE IF option_type = "CALL" THEN Num(0) ELSE Num(-1)

\* calculate_greeks that tests only sigma <= 0
brent_greeks_any_T(S, K, Tn, sigma, option_type) ==
    IF LeqZero(sigma) THEN AllNull
    ELSE [g \in GreekNames |-> Formula(sigma)]

\* brent_bs.py and ndx_brent_bs.py calculate_greeks; Tn is T in billionths
\* of a year, so that T < 1e-6 is Tn < 1000
brent_greeks(S, K, Tn, sigma, option_type) ==
    IF Tn <= 0 \/ LeqZero(sigma) THEN AllNull
    ELSE IF Tn < 1000
         THEN [g \in GreekNames |->
                  IF g = "delta" THEN near_expiry_delta(S, K, option_type)
                  ELSE IF g = "gamma" THEN GammaClamp
                  ELSE Formula(sigma)]
         ELSE [g \in GreekNames |-> Formula(sigma)]

\* grok.py, ndx_grok.py, hybrid_one.py and ndx_hybrid_one.py
\* calculate_greeks: None when any of sigma, S, K, T is <= 0
guarded_greeks(S, K, Tn, sigma, option_type) ==
    IF LeqZero(sigma) \/ S <= 0 \/ K <= 0 \/ Tn <= 0 THEN PyNone
    ELSE [g \in GreekNames |-> Formula(sigma)]

\* calculate_greeks of a script
calculate_greeks(variant, S, K, Tn, sigma, option_type) ==
    IF variant \in {"brent_bs", "ndx_brent_bs"}
    THEN brent_greeks(S, K, Tn, sigma, option_type)
    ELSE guarded_greeks(S, K, Tn, sigma, option_type)

\* the calls of calculate_greeks: T = -1e-9, 0, 5e-7, 1e-6, 0.1 and
\* sigma = -0.2, 0.0, 0.2, a solver's root, NaN
GreeksCalls ==
    [fn : {"calculate_greeks"}, variant : GreekVariants,
     S : {9000, 10000, 11000}, K : {10000},
     T : {-1, 0, 500, 1000, 100000000},
     sigma : {Num(-200000), Num(0), Num(200000), Root, NaN},
     option_type : {"CALL", "PUT"}]

\* calculate_greeks of one of the six scripts
CalculateGreeks ==
    /\ call.fn = "calculate_greeks"
    /\ ret = Pending
    /\ ret' = calculate_greeks(call.variant, call.S, call.K, call.T, call.sigma,
                               call.option_type)
    /\ UNCHANGED call
    /\ UNCHANGED <<flipVars, wrapVars, ivVars, guiVars>>

(***************************************************************************)
(* The exposure calculator, abso_expo.py.  delta, gamma, vanna, charm and  *)
(* impliedVolatility are in thousandths, spotPrice in dollars,             *)
(* openInterest in contracts; an exposure is in millionths of a million    *)
(* dollars, so a value rounded to 3 decimals is a multiple of 1000.        *)

\* an empty cell of a CSV file
Empty == [k |-> "empty", v |-> 0]

\* DataFrame.to_csv on one value: a missing value is written as nothing
to_csv(x) == IF x.k = "num" THEN x ELSE Empty

\* pd.read_csv on one cell: nothing is read as NaN
read_csv(c) == IF c = Empty THEN NaN ELSE c

\* the product of float columns: NaN as soon as one factor is NaN, even
\* when another is 0
Product(factors) ==
    IF \E i \in 1 .. Len(factors) : factors[i].k # "num"
    THEN NaN
    ELSE LET RECURSIVE P(_)
             P(i) == IF i = 0 THEN 1 ELSE factors[i].v * P(i - 1)
         IN  Num(P(Len(factors)))

\* n / d rounded to the nearest integer, a tie going to the even one, as
\* Python's round does
RoundHalfEven(n, d) ==
    LET q == n \div d
        r == n % d
    IN  IF 2 * r < d THEN q
        ELSE IF 2 * r > d THEN q + 1
        ELSE IF q % 2 = 0 THEN q ELSE q + 1

\* x.v / d is the value in thousandths of a million: kept as it comes, to 6
\* decimals
unrounded(x, d) == IF x.k # "num" THEN NaN ELSE Num(x.v \div (d \div 1000))

\* lambda x: round(x / 1_000_000, 3); x.v / d is the value in thousandths
\* of a million; round(nan, 3) is nan
round_3(x, d) == IF x.k # "num" THEN NaN ELSE Num(1000 * RoundHalfEven(x.v, d))

\* df.loc[df["putCall"].str.upper() == "PUT", "GEX"] *= -1
AdjustForPuts(gex, putCall) ==
    IF putCall = "PUT" /\ gex.k = "num" THEN Num(0 - gex.v) ELSE gex

\* GEX of one row before the adjustment for puts
gex_of_row_unsigned(gamma, openInterest, spotPrice, putCall) ==
    round_3(Product(<<gamma, openInterest, spotPrice, spotPrice>>), 10000)

\* GEX of one row: gamma * openInterest * spotPrice ** 2 * 100, normalised
\* and rounded, negated for a put
gex_of_row(gamma, openInterest, spotPrice, putCall) ==
    AdjustForPuts(round_3(Product(<<gamma, openInterest, spotPrice, spotPrice>>), 10000),
                  putCall)

\* a calculator that gives up on the whole row when one Greek is missing
exposures_of_row_all_or_nothing(r) ==
    LET whole == \A f \in {"delta", "gamma", "vanna", "charm"} : r[f].k = "num"
        Or(x) == IF whole THEN x ELSE NaN
    IN  [delta |-> r.delta, gamma |-> r.gamma, vanna |-> r.vanna, charm |-> r.charm,
         spotPrice |-> r.spotPrice, openInterest |-> r.openInterest,
         putCall |-> r.putCall, impliedVolatility |-> r.impliedVolatility,
         strikePrice |-> r.strikePrice,
         DEX |-> Or(round_3(Product(<<r.delta, r.openInterest, r.spotPrice>>), 1000000)),
         GEX |-> Or(gex_of_row(r.gamma, r.openInterest, r.spotPrice, r.putCall)),
         VEX |-> Or(round_3(Product(<<r.vanna, r.openInterest, r.spotPrice,
                                      r.impliedVolatility>>), 1000000000)),
         CEX |-> Or(round_3(Product(<<r.charm, r.openInterest, r.spotPrice, Num(365)>>),
                            1000000))]

\* calculate_exposures on one row of the frame: the columns DEX, GEX, VEX
\* and CEX are assigned from the input columns, the others are kept
exposures_of_row(r) ==
    [delta |-> r.delta, gamma |-> r.gamma, vanna |-> r.vanna, charm |-> r.charm,
     spotPrice |-> r.spotPrice, openInterest |-> r.openInterest,
     putCall |-> r.putCall, impliedVolatility |-> r.impliedVolatility,
     strikePrice |-> r.strikePrice,
     DEX |-> round_3(Product(<<r.delta, r.openInterest, r.spotPrice>>), 1000000),
     GEX |-> gex_of_row(r.gamma, r.openInterest, r.spotPrice, r.putCall),
     VEX |-> round_3(Product(<<r.vanna, r.openInterest, r.spotPrice,
                               r.impliedVolatility>>), 1000000000),
     CEX |-> round_3(Product(<<r.charm, r.openInterest, r.spotPrice, Num(365)>>),
                     1000000)]

\* calculate_exposures(df)
calculate_exposures(df) == [i \in 1 .. Len(df) |-> exposures_of_row(df[i])]

\* one row through pd.read_csv
read_row(r) ==
    [f \in DOMAIN r |-> IF f = "putCall" THEN r[f] ELSE read_csv(r[f])]

\* one row through DataFrame.to_csv
write_row(r) ==
    [f \in DOMAIN r |-> IF f = "putCall" THEN r[f] ELSE to_csv(r[f])]

\* the four Greeks of a row of an IV results file: all numbers, or all
\* missing (the dictionary of None values of brent_bs.py)
GreeksOfFile ==
    [delta : {Num(-403), Num(551)}, gamma : {Num(1), Num(13)},
     vanna : {Num(-30), Num(100)}, charm : {Num(-8), Num(5)}]
    \cup {[delta |-> Empty, gamma |-> Empty, vanna |-> Empty, charm |-> Empty]}

\* a row of an IV results file
FileRow(g, spot, oi, pc, sigma, strike) ==
    [delta |-> g.delta, gamma |-> g.gamma, vanna |-> g.vanna, charm |-> g.charm,
     spotPrice |-> spot, openInterest |-> oi, putCall |-> pc,
     impliedVolatility |-> sigma, strikePrice |-> strike]

\* results files of one row
OneRowFiles ==
    {<<FileRow(g, spot, oi, pc, Num(210), Num(100))>> :
        g \in GreeksOfFile, spot \in {Num(100), Num(250)},
        oi \in {Num(0), Num(7), Num(300)}, pc \in {"CALL", "PUT"}}

\* rows that differ in what GEX is made of
GexRows ==
    {FileRow([delta |-> Num(551), gamma |-> gm, vanna |-> Num(100), charm |-> Num(5)],
             Num(250), oi, pc, Num(210), strike) :
        gm \in {Num(1), Num(13)}, oi \in {Num(7), Num(300)},
        pc \in {"CALL", "PUT"}, strike \in {Num(100), Num(105)}}

\* results files of two rows
TwoRowFiles == {<<a, b>> : a \in GexRows, b \in GexRows}

\* the Greeks of a row that lacks exactly one of them
PartialGreeks ==
    {[f \in {"delta", "gamma", "vanna", "charm"} |->
         IF f = lacking THEN Empty
         ELSE IF f = "delta" THEN Num(551) ELSE IF f = "gamma" THEN Num(13)
         ELSE IF f = "vanna" THEN Num(100) ELSE Num(5)] :
        lacking \in {"delta", "gamma", "vanna", "charm"}}

\* results files of two rows, the first lacking one Greek, the second
\* complete
PartialFiles ==
    {<<FileRow(g, Num(250), Num(300), pc, Num(210), Num(100)),
       FileRow([delta |-> Num(-403), gamma |-> Num(13), vanna |-> Num(-30),
                charm |-> Num(-8)], Num(250), Num(7), "PUT", Num(210), Num(105))>> :
        g \in PartialGreeks, pc \in {"CALL", "PUT"}}

\* abso_expo.py process_file, run on the file or on what a former run left
ProcessFileCalls ==
    [fn : {"process_file"}, file : OneRowFiles \cup PartialFiles, has_columns : BOOLEAN]

\* ranking.py and ratio.py reading a file abso_expo.py has processed
GroupByCalls ==
    [fn : {"gex_by_strike"}, file : TwoRowFiles \cup {f \in OneRowFiles : f[1].openInterest # Num(0)}]

\* most runs of abso_expo.py on one file
MaxRuns == 2

\* abso_expo.py process_file: read the file, add the exposure columns,
\* write it back; a frame without the required columns is left as it is
AbsoExpoProcessFile ==
    /\ call.fn = "process_file"
    /\ ret # Pending => ret.runs < MaxRuns
    /\ LET file == IF ret = Pending THEN call.file ELSE ret.file
           runs == IF ret = Pending THEN 0 ELSE ret.runs
           df   == [i \in 1 .. Len(file) |-> read_row(file[i])]
           out  == calculate_exposures(df)
       IN  ret' = [runs |-> runs + 1,
                   before |-> file,
                   computed |-> call.has_columns,
                   file |-> IF call.has_columns
                            THEN [i \in 1 .. Len(out) |-> write_row(out[i])]
                            ELSE file]
    /\ UNCHANGED call
    /\ UNCHANGED <<flipVars, wrapVars, ivVars, guiVars>>

\* the strikes of a frame
StrikesOf(df) == {df[i].strikePrice : i \in 1 .. Len(df)}

\* Series.sum of the column over the rows of the frame whose index is in
\* keep: a NaN is skipped
SumWhere(df, col, keep) ==
    LET RECURSIVE S(_)
        S(i) == IF i = 0 THEN 0
                ELSE S(i - 1) + (IF i \in keep /\ df[i][col].k = "num"
                                 THEN df[i][col].v ELSE 0)
    IN  S(Len(df))

\* df.groupby("strikePrice")["GEX"].sum() of ratio.py process_file and of
\* ranking.py rank_exposures
GroupBySum(df) ==
    [k \in StrikesOf(df) |->
        SumWhere(df, "GEX", {i \in 1 .. Len(df) : df[i].strikePrice = k})]

\* the per-strike GEX that ranking.py and ratio.py make of a file processed
\* by abso_expo.py
GroupGexByStrike ==
    /\ call.fn = "gex_by_strike"
    /\ ret = Pending
    /\ LET df  == [i \in 1 .. Len(call.file) |-> read_row(call.file[i])]
           out == calculate_exposures(df)
           file == [i \in 1 .. Len(out) |-> write_row(out[i])]
           read == [i \in 1 .. Len(file) |-> read_row(file[i])]
       IN  ret' = [frame |-> read, by_strike |-> GroupBySum(read)]
    /\ UNCHANGED call
    /\ UNCHANGED <<flipVars, wrapVars, ivVars, guiVars>>


(***************************************************************************)
(* The ranking engine, ranking.py.  A strike is in dollars, the multiplier *)
(* in ten-thousandths, a theoretical price in ten-thousandths of a dollar. *)

\* round(theo_price * 4), the number of quarter points: theo_price is
\* strike_price + strike_price * multiplier
QuarterPoints(strike_price, multiplier) ==
    RoundHalfEven(4 * strike_price * (10000 + multiplier), 10000)

\* a price cut down to the quarter point below it
calculate_theo_es_floor(strike_price, multiplier) ==
    ((4 * strike_price * (10000 + multiplier)) \div 10000) * 2500

\* calculate_theo_es: round(theo_price * 4) / 4
calculate_theo_es(strike_price, multiplier) ==
    QuarterPoints(strike_price, multiplier) * 2500

\* DataFrame.round(3) on one value given in ten-thousandths
frame_round_3(x) == RoundHalfEven(x, 10) * 10

\* df.groupby("strikePrice")[exposure_column].sum()
GroupByStrikeSum(df, col) ==
    [k \in StrikesOf(df) |->
        SumWhere(df, col, {i \in 1 .. Len(df) : df[i].strikePrice = k})]

\* sort_values(by=exposure_column, ascending=False): the orders of the
\* strikes in which the aggregated value never goes up; equal values may
\* come in any order
RECURSIVE SortedDescending(_, _)
SortedDescending(agg, strikes) ==
    IF strikes = {} THEN {<<>>}
    ELSE UNION {{<<k>> \o rest : rest \in SortedDescending(agg, strikes \ {k})} :
                   k \in {m \in strikes : \A j \in strikes : agg[m] >= agg[j]}}

\* f"Call {exposure_column} {i + 1}" and f"Put {exposure_column} {top_n - i}"
RankLabel(side, exposure_column, n) ==
    side \o " " \o exposure_column \o " " \o ToString(n)

\* a rank_exposures that leaves the strikes in the order of the groupby,
\* unsorted
rank_exposures_unsorted(df, exposure_column, top_n, multiplier) ==
    LET agg == GroupByStrikeSum(df, exposure_column)
        Level(k, label) ==
            [strikePrice |-> k, TheoES |-> calculate_theo_es(k.v, multiplier),
             Rank |-> label, Greek |-> exposure_column, Value |-> agg[k]]
    IN  {LET n == Len(order)
             head == SubSeq(order, 1, IF n < top_n THEN n ELSE top_n)
             tail == SubSeq(order, IF n < top_n THEN 1 ELSE n - top_n + 1, n)
         IN  [i \in 1 .. Len(head) |->
                 Level(head[i], RankLabel("Call", exposure_column, i))]
             \o
             [i \in 1 .. Len(tail) |->
                 Level(tail[i], RankLabel("Put", exposure_column, top_n - (i - 1)))] :
         order \in SortedDescending([k \in DOMAIN agg |-> 0 - k.v], DOMAIN agg)}

\* rank_exposures: the frames it may return
rank_exposures(df, exposure_column, top_n, multiplier) ==
    LET agg == GroupByStrikeSum(df, exposure_column)
        Level(k, label) ==
            [strikePrice |-> k, TheoES |-> calculate_theo_es(k.v, multiplier),
             Rank |-> label, Greek |-> exposure_column, Value |-> agg[k]]
    IN  {LET n == Len(order)
             head == SubSeq(order, 1, IF n < top_n THEN n ELSE top_n)
             tail == SubSeq(order, IF n < top_n THEN 1 ELSE n - top_n + 1, n)
         IN  [i \in 1 .. Len(head) |->
                 Level(head[i], RankLabel("Call", exposure_column, i))]
             \o
             [i \in 1 .. Len(tail) |->
                 Level(tail[i], RankLabel("Put", exposure_column, top_n - (i - 1)))] :
         order \in SortedDescending(agg, DOMAIN agg)}

\* most strikes of a small frame handed to rank_exposures
MaxRankStrikes == 4

\* the row of a frame at the i-th strike, with value x in the column
RankRow(i, col, x) ==
    [strikePrice |-> Num(5000 + 5 * i),
     DEX |-> IF col = "DEX" THEN Num(x) ELSE Num(0),
     GEX |-> IF col = "GEX" THEN Num(x) ELSE Num(0),
     VEX |-> IF col = "VEX" THEN Num(x) ELSE Num(0),
     CEX |-> IF col = "CEX" THEN Num(x) ELSE Num(0)]

\* the values of an exposure column, in thousandths
ExposureValues == {-30000, -10000, 0, 20000, 50000}

\* small frames: one row per strike and, for some, a second row at the
\* first strike
SmallFrames(col) ==
    UNION {{[i \in 1 .. n |-> RankRow(i, col, xs[i])] : xs \in [1 .. n -> ExposureValues]}
              : n \in 1 .. MaxRankStrikes}
    \cup
    {<<RankRow(1, col, a), RankRow(2, col, b), RankRow(1, col, c)>> :
        a \in ExposureValues, b \in ExposureValues, c \in {-10000, 20000}}

\* frames of 10 and 11 strikes of distinct values
WideFrames(col) ==
    {[i \in 1 .. n |-> RankRow(i, col, (((i * 7 + r) % 11) - 5) * 10000)] :
        n \in {10, 11}, r \in 0 .. 10}

\* the calls of rank_exposures: process_file calls it with the default
\* top_n of 5
RankCalls ==
    UNION {[fn : {"rank_exposures"}, df : SmallFrames(col) \cup WideFrames(col),
            exposure_column : {col}, top_n : {5}, multiplier : {37}]
           \cup
           [fn : {"rank_exposures"}, df : SmallFrames(col),
            exposure_column : {col}, top_n : {1, 2}, multiplier : {37}]
              : col \in {"DEX", "GEX", "VEX", "CEX"}}

\* rank_exposures
RankExposures ==
    /\ call.fn = "rank_exposures"
    /\ ret = Pending
    /\ \E ranked_levels \in rank_exposures(call.df, call.exposure_column,
                                           call.top_n, call.multiplier) :
           ret' = [ranked_levels |-> ranked_levels]
    /\ UNCHANGED call
    /\ UNCHANGED <<flipVars, wrapVars, ivVars, guiVars>>

\* the calls of calculate_theo_es
TheoCalls ==
    [fn : {"calculate_theo_es"}, strike_price : {4995, 5000, 5005, 5010},
     multiplier : {-12, 0, 37, 250}]

\* calculate_theo_es followed by the rounding of the output frame in
\* process_file
CalculateTheoEs ==
    /\ call.fn = "calculate_theo_es"
    /\ ret = Pending
    /\ LET theo == calculate_theo_es(call.strike_price, call.multiplier)
       IN  ret' = [theo |-> theo, written |-> frame_round_3(theo)]
    /\ UNCHANGED call
    /\ UNCHANGED <<flipVars, wrapVars, ivVars, guiVars>>

(***************************************************************************)
(* Vanna and charm of the six IV scripts, computed for at-the-money        *)
(* contracts (S = K, so ln(S/K) = 0).  sigma, r, d1, d2, the normal        *)
(* density, vanna and charm are in ten-thousandths, gamma in millionths;   *)
(* T is given by Tq, its number of quarters of a year, and sqrt(T) by      *)
(* rootT2, twice its value.                                                *)

\* d1 = (ln(S/K) + (r + 0.5 sigma^2) T) / (sigma sqrt(T)) with S = K
d1(r, sigma, Tq, rootT2) ==
    ((r + (sigma * sigma) \div 20000) * Tq * 2 * 10000) \div (4 * sigma * rootT2)

\* d2 = d1 - sigma sqrt(T)
d2(r, sigma, Tq, rootT2) ==
    d1(r, sigma, Tq, rootT2) - (sigma * rootT2) \div 2

\* norm.pdf at the values d1 takes here: 0.1625, 0.175, 0.325, 0.35
norm_pdf(x) ==
    IF x = 1625 THEN 3937 ELSE IF x = 1750 THEN 3929
    ELSE IF x = 3250 THEN 3784 ELSE 3752

\* gamma = norm.pdf(d1) / (S sigma sqrt(T))
gamma_formula(S, r, sigma, Tq, rootT2) ==
    ((((2 * norm_pdf(d1(r, sigma, Tq, rootT2)) * 10000) \div (S * rootT2)) * 100)
        \div sigma)

\* the NDX scripts and brent_bs.py: vanna = d2 * S * norm.pdf(d1) / sigma
vanna_textbook(S, r, sigma, Tq, rootT2) ==
    (d2(r, sigma, Tq, rootT2) * S * norm_pdf(d1(r, sigma, Tq, rootT2))) \div sigma

\* grok.py and hybrid_one.py: vanna = d1 * gamma
vanna_optimized(S, r, sigma, Tq, rootT2) ==
    (d1(r, sigma, Tq, rootT2) * gamma_formula(S, r, sigma, Tq, rootT2)) \div 1000000

\* grok.py and hybrid_one.py:
\* charm = -norm.pdf(d1) * ((2 r T - d2 sigma sqrt(T)) / (2 T))
charm_optimized(S, r, sigma, Tq, rootT2) ==
    LET inner == (r * Tq) \div 2
                   - (d2(r, sigma, Tq, rootT2) * sigma * rootT2) \div 20000
    IN  0 - ((norm_pdf(d1(r, sigma, Tq, rootT2)) * inner * 2) \div Tq) \div 10000

\* the NDX scripts and brent_bs.py:
\* charm = -norm.pdf(d1) * (2 r T - d2 sigma sqrt(T)) / (2 T sigma sqrt(T))
charm_textbook(S, r, sigma, Tq, rootT2) ==
    0 - ((0 - charm_optimized(S, r, sigma, Tq, rootT2)) * 20000) \div (sigma * rootT2)

\* the script of a strategy for an instrument
ScriptOf(strat, instrument) == IF instrument = "NDX" THEN "ndx_" \o strat ELSE strat

\* vanna and charm as the script computes them
vanna_charm(script, S, r, sigma, Tq, rootT2) ==
    IF script \in {"grok", "hybrid_one"}
    THEN [vanna |-> vanna_optimized(S, r, sigma, Tq, rootT2),
          charm |-> charm_optimized(S, r, sigma, Tq, rootT2)]
    ELSE [vanna |-> vanna_textbook(S, r, sigma, Tq, rootT2),
          charm |-> charm_textbook(S, r, sigma, Tq, rootT2)]

\* the same contract given to the SPX script and to the NDX script of a
\* strategy: S = K = 100, r = 0.05, sigma = 0.2 or 0.4, T = 1 or 0.25
InstrumentCalls ==
    {[fn |-> "both_instruments", strat |-> m, S |-> 100, r |-> 500, sigma |-> sg,
      Tq |-> t[1], rootT2 |-> t[2], option_type |-> ot] :
        m \in Methods, sg \in {2000, 4000}, t \in {<<4, 2>>, <<1, 1>>},
        ot \in {"CALL", "PUT"}}

\* calculate_greeks of the SPX script and of its NDX counterpart on the
\* same contract
BothInstruments ==
    /\ call.fn = "both_instruments"
    /\ ret = Pending
    /\ ret' = [i \in {"SPX", "NDX"} |->
                  [greeks |-> calculate_greeks(ScriptOf(call.strat, i), call.S, call.S,
                                               call.Tq * 250000000, Num(call.sigma * 100),
                                               call.option_type),
                   numbers |-> vanna_charm(ScriptOf(call.strat, i), call.S, call.r,
                                           call.sigma, call.Tq, call.rootT2)]]
    /\ UNCHANGED call
    /\ UNCHANGED <<flipVars, wrapVars, ivVars, guiVars>>

InitCalls ==
    /\ FlipIdle
    /\ WrapIdle
    /\ IvIdle
    /\ GuiIdle
    /\ call \in RefineCalls \cup GreeksCalls \cup ProcessFileCalls \cup GroupByCalls
                \cup RankCalls \cup TheoCalls \cup InstrumentCalls
    /\ ret = Pending

NextCalls ==
    \/ RefineIv
    \/ CalculateGreeks
    \/ AbsoExpoProcessFile
    \/ GroupGexByStrike
    \/ RankExposures
    \/ CalculateTheoEs
    \/ BothInstruments

SpecCalls == InitCalls /\ [][NextCalls]_vars

\* the call has returned
Returned == ret # Pending

\* C12: refine_iv returns either a root located inside
\* [max(1e-6, 0.5*estimate), min(5.0, max(1.0, 1.5*estimate))] or, when no
\* sign change exists over the bracket or the bracket is empty (its lower
\* bound exceeds its upper bound), exactly the unrefined estimate.
C12_RefineRootInBracketOrEstimate ==
    (call.fn = "refine_iv" /\ Returned) =>
        LET lower_bound == refine_lower_bound(call.initial_iv)
            upper_bound == refine_upper_bound(call.initial_iv)
        IN  /\ lower_bound > upper_bound => ret.value = call.initial_iv
            /\ \/ ret.value = call.initial_iv
               \/ /\ ret.value.k \in {"root", "num"}
                  /\ lower_bound <= ret.span.lo
                  /\ ret.span.hi <= upper_bound

\* no Greek of the returned value is a number: the function returned None
\* or a dict of seven nulls
NoNumericGreek(x) ==
    IF DOMAIN x = GreekNames THEN \A g \in GreekNames : x[g] = PyNone
    ELSE x = PyNone

\* C13: in each of the six scripts, calculate_greeks called with T <= 0 or
\* sigma <= 0 returns normally and gives no numeric Greek: all seven of
\* delta, gamma, vega, theta, rho, vanna, charm are null.
C13_DegenerateInputGivesNullGreeks ==
    (call.fn = "calculate_greeks" /\ Returned /\ (call.T <= 0 \/ LeqZero(call.sigma)))
        => NoNumericGreek(ret)

\* brent_bs.py returned seven nulls for T = 0 with a positive sigma
C13_Witness ==
    /\ call.fn = "calculate_greeks"
    /\ call.variant = "brent_bs"
    /\ call.T = 0
    /\ call.sigma = Num(200000)
    /\ ret = AllNull

\* C14: in brent_bs.py and ndx_brent_bs.py, when 0 < T < 1e-6 gamma is the
\* fixed small constant and delta is the moneyness indicator of the option
\* type: for a CALL 1 if S > K else 0, for a PUT 0 if S > K else -1.
C14_NearExpiryDeltaIsIndicator ==
    (/\ call.fn = "calculate_greeks"
     /\ call.variant \in {"brent_bs", "ndx_brent_bs"}
     /\ Returned
     /\ call.T > 0 /\ call.T < 1000
     /\ ~LeqZero(call.sigma))
        => /\ ret["gamma"] = GammaClamp
           /\ ret["delta"] = IF call.option_type = "CALL"
                             THEN (IF call.S > call.K THEN Num(1) ELSE Num(0))
                             ELSE (IF call.S > call.K THEN Num(0) ELSE Num(-1))


(***************************************************************************)
(* Properties of a batch of contracts                                      *)

\* the processing function has returned
BatchDone == ivPc = "done"

\* the i-th contract of the batch got no IV and Greeks
Unsolved(i) == \A j \in 1 .. Len(results) : results[j].idx # i

\* the i-th contract is in the skipped rows with a reason string
SkippedWithReason(i) ==
    \E j \in 1 .. Len(skipped_rows) :
        skipped_rows[j].idx = i /\ skipped_rows[j].skip_reason # ""

\* C15: in each strategy, every contract for which no IV/Greeks were
\* produced is recorded, with a reason string, in the skipped rows, and the
\* skipped rows are saved, whatever the contract's expiration date and
\* however many contracts were solved.
C15_UnsolvedRecordedWithReason ==
    BatchDone =>
        \A i \in 1 .. rows_done :
            Unsolved(i) => (SkippedWithReason(i) /\ skipped_saved)

\* C16: a failure on one contract does not keep the other contracts of the
\* batch from being written: when the function has returned, the solved
\* contracts of the configured bucket are in the results file.
C16_FailureStaysInsideItsContract ==
    BatchDone =>
        ((\E i \in 1 .. Len(results) : results[i].expirationDate = "today")
            => written)

\* C17: when no contract of the batch was solved, the function returns with
\* the warning and writes no result rows.
C17_NothingSolvedGivesWarning ==
    (BatchDone /\ results = <<>>) =>
        (NothingSolvedWarning \in log /\ ~written)


(***************************************************************************)
(* Properties of the exposure calculator                                   *)

\* abso_expo.py has added the exposure columns to the file
ExposuresWritten ==
    /\ Returned
    /\ call.fn = "process_file"
    /\ ret.computed

\* the exposure columns
ExposureColumns == {"DEX", "GEX", "VEX", "CEX"}

\* C18: for every contract with openInterest = 0, each of DEX, GEX, VEX and
\* CEX computed by calculate_exposures is exactly 0, whatever the other
\* columns hold, missing values included.
C18_ZeroOpenInterestGivesZeroExposure ==
    ExposuresWritten =>
        \A i \in 1 .. Len(ret.file) :
            ret.file[i].openInterest = Num(0) =>
                \A col \in ExposureColumns : ret.file[i][col] = Num(0)

\* ranking.py and ratio.py have grouped the GEX of a processed file
GexGrouped ==
    /\ Returned
    /\ call.fn = "gex_by_strike"

\* the GEX of the calls, or of the puts, of the frame at strike k
GexAtStrike(df, k, putCall) ==
    SumWhere(df, "GEX", {i \in 1 .. Len(df) :
                            df[i].strikePrice = k /\ df[i].putCall = putCall})

\* C19: with a numeric gamma and openInterest >= 0 the GEX of a contract is
\* >= 0 for a CALL and <= 0 for a PUT, and the per-strike GEX that the
\* ranking and the gamma-flip detection read is the sum of the call GEX and
\* the put GEX of the contracts at that strike.
C19_GexSignAndPerStrikeSum ==
    /\ ExposuresWritten =>
           \A i \in 1 .. Len(ret.file) :
               ret.file[i].gamma.k = "num" =>
                   /\ ret.file[i].GEX.k = "num"
                   /\ ret.file[i].putCall = "CALL" => ret.file[i].GEX.v >= 0
                   /\ ret.file[i].putCall = "PUT" => ret.file[i].GEX.v <= 0
    /\ GexGrouped =>
           /\ \A i \in 1 .. Len(ret.frame) :
                  /\ ret.frame[i].putCall = "CALL" => ret.frame[i].GEX.v >= 0
                  /\ ret.frame[i].putCall = "PUT" => ret.frame[i].GEX.v <= 0
           /\ \A k \in StrikesOf(ret.frame) :
                  ret.by_strike[k] = GexAtStrike(ret.frame, k, "CALL")
                                       + GexAtStrike(ret.frame, k, "PUT")

\* a strike with a call of GEX 568.75 rounded to 569 and a put of GEX -43.75
\* rounded to -44 has a per-strike GEX of 525
C19_Witness ==
    /\ GexGrouped
    /\ Len(ret.frame) = 2
    /\ ret.frame[1].putCall = "CALL" /\ ret.frame[1].GEX = Num(569000)
    /\ ret.frame[2].putCall = "PUT" /\ ret.frame[2].GEX = Num(-44000)
    /\ ret.frame[1].strikePrice = ret.frame[2].strikePrice
    /\ ret.by_strike[ret.frame[1].strikePrice] = 525000

\* C20: every exposure value calculate_exposures writes is rounded to 3
\* decimals, and running it again on a file it has processed leaves every
\* DEX, GEX, VEX and CEX as it was; the GEX of a put is not negated again.
C20_RoundedAndIdempotent ==
    ExposuresWritten =>
        /\ \A i \in 1 .. Len(ret.file) : \A col \in ExposureColumns :
               ret.file[i][col].k = "num" => ret.file[i][col].v % 1000 = 0
        /\ ret.runs = MaxRuns =>
               \A i \in 1 .. Len(ret.file) : \A col \in ExposureColumns :
                   ret.file[i][col] = ret.before[i][col]

\* a put whose GEX, -568.75 before rounding, is -569 after the second run
\* as after the first
C20_Witness ==
    /\ ExposuresWritten
    /\ ret.runs = MaxRuns
    /\ ret.file[1].putCall = "PUT"
    /\ ret.file[1].GEX = Num(-569000)
    /\ ret.before[1].GEX = Num(-569000)
    /\ ret.file[1].DEX.k = "num" /\ ret.file[1].DEX.v # 0


\* the input columns of each exposure column
InputsOf(col) ==
    IF col = "DEX" THEN {"delta", "openInterest", "spotPrice"}
    ELSE IF col = "GEX" THEN {"gamma", "openInterest", "spotPrice"}
    ELSE IF col = "VEX" THEN {"vanna", "openInterest", "spotPrice", "impliedVolatility"}
    ELSE {"charm", "openInterest", "spotPrice"}

\* C21: a contract that lacks an input of one exposure measure lacks that
\* measure only: every measure whose own inputs are all there is computed
\* and written, for that contract and for every other contract of the file.
C21_MissingInputSkipsOneMeasureOnly ==
    ExposuresWritten =>
        \A i \in 1 .. Len(ret.file) : \A col \in ExposureColumns :
            (\A f \in InputsOf(col) : ret.file[i][f].k = "num")
                <=> ret.file[i][col].k = "num"

\* a file whose first contract has no vanna: it has no VEX but has DEX, GEX
\* and CEX, and the second contract has all four
C21_Witness ==
    /\ ExposuresWritten
    /\ Len(ret.file) = 2
    /\ ret.file[1].vanna = Empty
    /\ ret.file[1].VEX = Empty
    /\ ret.file[1].DEX.k = "num" /\ ret.file[1].GEX.k = "num" /\ ret.file[1].CEX.k = "num"
    /\ \A col \in ExposureColumns : ret.file[2][col].k = "num"


(***************************************************************************)
(* Properties of the ranking engine                                        *)

\* rank_exposures has returned
Ranked ==
    /\ Returned
    /\ call.fn = "rank_exposures"

\* the aggregated value of each strike of the frame that was ranked
Aggregated == GroupByStrikeSum(call.df, call.exposure_column)

\* the strikes whose aggregated value is above, or below, x
StrikesAbove(x) == {k \in DOMAIN Aggregated : Aggregated[k] > x}
StrikesBelow(x) == {k \in DOMAIN Aggregated : Aggregated[k] < x}

\* at least 2 * top_n strikes, no two of the same aggregated value
ManyDistinct ==
    /\ Cardinality(DOMAIN Aggregated) >= 2 * call.top_n
    /\ \A j, k \in DOMAIN Aggregated : j # k => Aggregated[j] # Aggregated[k]

\* the labels of one side, 1 to n
Labels(side, n) == {RankLabel(side, call.exposure_column, i) : i \in 1 .. n}

\* C22: with at least 2N strikes of distinct aggregated value (N = top_n),
\* rank_exposures returns the N largest values in descending order labelled
\* 'Call {Greek} 1' .. 'Call {Greek} N', then the N smallest values labelled
\* 'Put {Greek} 1' .. 'Put {Greek} N', each label used once.
C22_TopAndBottomN ==
    (Ranked /\ ManyDistinct) =>
        LET levels == ret.ranked_levels
            N == call.top_n
        IN  /\ Len(levels) = 2 * N
            /\ \A i \in 1 .. N :
                   /\ levels[i].Rank = RankLabel("Call", call.exposure_column, i)
                   /\ levels[i].Value = Aggregated[levels[i].strikePrice]
                   /\ Cardinality(StrikesAbove(levels[i].Value)) = i - 1
            /\ \A i \in N + 1 .. 2 * N :
                   /\ levels[i].Value = Aggregated[levels[i].strikePrice]
                   /\ Cardinality(StrikesBelow(levels[i].Value)) < N
            /\ {levels[i].Rank : i \in N + 1 .. 2 * N} = Labels("Put", N)
            /\ Cardinality({levels[i].Rank : i \in 1 .. 2 * N}) = 2 * N
            /\ Cardinality({levels[i].strikePrice : i \in N + 1 .. 2 * N}) = N

\* eleven strikes ranked with the default top_n of 5: ten levels, the last
\* one the lowest value of the frame, labelled 'Put VEX 1'
C22_Witness ==
    /\ Ranked
    /\ ManyDistinct
    /\ call.top_n = 5
    /\ Cardinality(DOMAIN Aggregated) = 11
    /\ Len(ret.ranked_levels) = 10
    /\ ret.ranked_levels[1].Rank = "Call VEX 1"
    /\ ret.ranked_levels[1].Value = 50000
    /\ ret.ranked_levels[10].Rank = "Put VEX 1"
    /\ ret.ranked_levels[10].Value = -50000

\* calculate_theo_es has returned and process_file has rounded its frame
TheoDone ==
    /\ Returned
    /\ call.fn = "calculate_theo_es"

\* strike * (1 + multiplier), in ten-thousandths of a dollar
ExactTheo == call.strike_price * (10000 + call.multiplier)

\* C23: the theoretical cross-instrument price is a multiple of 0.25 that
\* differs from strike * (1 + multiplier) by at most 0.125, and the
\* rounding of the output to 3 decimals does not change it.
C23_NearestQuarterPoint ==
    TheoDone =>
        /\ ret.theo % 2500 = 0
        /\ ret.theo - ExactTheo <= 1250
        /\ ExactTheo - ret.theo <= 1250
        /\ ret.written = ret.theo

\* strike 5005 with a multiplier of 0.0037: 5023.5185 becomes 5023.50
C23_Witness ==
    /\ TheoDone
    /\ call.strike_price = 5005
    /\ call.multiplier = 37
    /\ ExactTheo = 50235185
    /\ ret.theo = 50235000
    /\ ret.written = 50235000

\* the levels of the returned frame that carry the label
LevelsLabelled(label) ==
    {i \in 1 .. Len(ret.ranked_levels) : ret.ranked_levels[i].Rank = label}

\* the labels of one side in the returned frame
LabelsUsed(side) ==
    {ret.ranked_levels[i].Rank : i \in 1 .. Len(ret.ranked_levels)}
        \cap Labels(side, call.top_n)

\* C29: for any number of strikes >= 1, fewer than top_n and fewer than
\* 2 * top_n included, the strike of the largest aggregated value is
\* labelled 'Call {Greek} 1', the strike of the smallest one 'Put {Greek} 1',
\* and the Put labels are consecutive from 1.
C29_ExtremesAreRankOne ==
    Ranked =>
        LET n == Cardinality(DOMAIN Aggregated)
            used == IF n < call.top_n THEN n ELSE call.top_n
        IN  /\ \E i \in LevelsLabelled(RankLabel("Call", call.exposure_column, 1)) :
                   StrikesAbove(ret.ranked_levels[i].Value) = {}
            /\ \E i \in LevelsLabelled(RankLabel("Put", call.exposure_column, 1)) :
                   StrikesBelow(ret.ranked_levels[i].Value) = {}
            /\ LabelsUsed("Put") = Labels("Put", used)


\* the flip lies between the strikes of two consecutive items of the series
\* whose running sums differ in sign
InBracket(flip) ==
    \E i \in 1 .. (Len(gex_by_strike) - 1) :
        /\ Sign(Cumulative[i]) # Sign(Cumulative[i + 1])
        /\ RatBetween(gex_by_strike[i + 1].strikePrice, flip,
                      gex_by_strike[i].strikePrice)

\* C28: a non-null flip of the cumulative scan or of the vectorized scan
\* lies between the two adjacent strikes that bracket the crossing
\* (currStrike <= flip <= prevStrike), hence within the strikes of the input.
C28_FlipInsideItsBracket ==
    ScanDone =>
        /\ ~cum_gam.isNone => InBracket(cum_gam)
        /\ ~vec_gam.isNone => InBracket(vec_gam)

\* both scans return 103.33, between the strikes 103 and 104, on a series
\* of four strikes
C28_Witness ==
    /\ ScanDone
    /\ StrikesAre(<<105, 104, 103, 102>>)
    /\ Is103_33(cum_gam)
    /\ Is103_33(vec_gam)
    /\ InBracket(cum_gam)
    /\ ~RatBetween(104, vec_gam, 105)


\* the SPX script and the NDX script of a strategy have both returned
BothReturned ==
    /\ Returned
    /\ call.fn = "both_instruments"

\* C25: for the same contract and the same strategy the SPX module and its
\* NDX counterpart accept or reject alike and compute the same seven
\* Greeks, vanna and charm by the same formula.
C25_SpxAndNdxAgree ==
    BothReturned =>
        /\ ret["SPX"].greeks = ret["NDX"].greeks
        /\ ret["SPX"].numbers = ret["NDX"].numbers

----------------------------------------------------------------------------
(* The files of the IV model scripts *)

\* the first cycle when spx_chain.py and spot_prices.py have run: the workbook
\* is absent, or saved with or without its spotPrice column, and the SPX-ES
\* difference is saved or not
InitPool ==
    /\ FlipIdle
    /\ IvIdle
    /\ FnIdle
    /\ GuiIdle
    /\ iv_method_config \in IvMethodValues
    /\ iv_method_selected = iv_method_config
    /\ saves = 0
    /\ files = {}
    /\ run_clean \in BOOLEAN
    /\ cycle = 1
    /\ wpc = "iv_start"
    /\ iv_pending = {}
    /\ chain \in {[snap |-> 0, hasSpot |-> FALSE], [snap |-> 1, hasSpot |-> FALSE],
                  [snap |-> 1, hasSpot |-> TRUE]}
    /\ spot_diff \in IF chain.snap = 0 THEN {0} ELSE {0, 1}
    /\ step_two = [s \in Methods |-> [snap |-> 0, expoIn |-> 0]]
    /\ ranked = [s \in Methods |-> [snap |-> 0, rankedIn |-> 0, flipSnap |-> 0, flipIn |-> 0]]
    /\ daily = {}
    /\ ran = {}
    /\ rank_aborted = FALSE

\* run_iv_models_parallel: the pool and the scripts it runs side by side
NextPool ==
    \/ RunIvModelsParallel
    \/ \E s \in Methods : IvModelScript(s)

SpecPool == InitPool /\ [][NextPool]_vars

\* the results file of script s exists
HasResults(s) == step_two[s].snap # 0

\* C24: every file of outputs/step_two holds the rows of one script only, the
\* results file of a script holds the rows that script solved, and the scripts
\* the pool runs side by side write to different results and skipped-rows files
C24_OneStrategyPerFile ==
    /\ \A f \in files, g \in files : f.path = g.path => f.rows_of = g.rows_of
    /\ \A s \in Methods :
          HasResults(s) => [path |-> out_filename(s), rows_of |-> s] \in files
    /\ \A s \in Methods, u \in Methods :
          s # u => {out_filename(s), SKIPPED_FILE(s)} \cap
                   {out_filename(u), SKIPPED_FILE(u)} = {}

\* 'All' is selected and the three scripts have each written both their files
C24_Witness ==
    /\ iv_method_selected = "All"
    /\ wpc = "abso_expo"
    /\ \A s \in Methods :
          /\ [path |-> out_filename(s), rows_of |-> s] \in files
          /\ [path |-> SKIPPED_FILE(s), rows_of |-> s] \in files


----------------------------------------------------------------------------
(* One set of settings per cycle *)

\* abso_expo.py has run in the current cycle
ExposureStageDone == "abso_expo" \in ran

\* C30: in every cycle, also when the control page saves another IV method
\* while the wrapper runs, the scripts whose result files abso_expo.py and
\* ranking.py process in the cycle are the scripts whose IV model ran in it:
\* an existing results file is given its exposures in this cycle exactly when
\* its script was one of the selected scripts, and only files of selected
\* scripts are ranked.
C30_StagesShareSettings ==
    /\ ExposureStageDone =>
          \A s \in Methods :
              HasResults(s) => (step_two[s].expoIn = cycle <=> s \in SelectedScripts)
    /\ \A s \in Methods : ranked[s].rankedIn = cycle => s \in SelectedScripts

\* the wrapper's own settings: without a save of the control page the stages agree
C30_Unsaved == saves = 0 => C30_StagesShareSettings


----------------------------------------------------------------------------
(* The wrapper loop *)

\* C26: whatever the settings files hold, every cycle the wrapper starts runs
\* through data retrieval, IV solving and the post-IV stages and reaches its
\* sleep; no failing script and no unrecognised setting ends the loop.
C26_EveryCycleReachesItsSleep == (wpc = "spx_chain") ~> (wpc = "sleep")

\* with an IV method the wrapper knows, every cycle does reach its sleep
C26_RecognisedMethod ==
    (wpc = "spx_chain" /\ iv_method_selected \in iv_methods) ~> (wpc = "sleep")


----------------------------------------------------------------------------
(* The Start and End buttons of the control page (CC_page_ctrl.py).         *)
(* A wrapper process is named by the order in which it was launched; a      *)
(* handle of 0 is None.  The interval, expiration, IV-method and clean-keep *)
(* fields are taken to be populated.                                        *)

\* number of wrapper processes launched in one session of the GUI
MaxLaunches == 4

\* setup_index_menu: indexes
indexes == {"SPX", "NDX", "Both"}

\* str.upper() of the index field
upper(val) == IF val = "Both" THEN "BOTH" ELSE val

InitGui ==
    /\ FlipIdle
    /\ WrapIdle
    /\ IvIdle
    /\ FnIdle
    /\ GuiIdle

\* set_index: the drop menu fills the index field
set_index(val) ==
    /\ p2_index_lineedit' = val
    /\ UNCHANGED <<wrapper_process, wrapper_process_spx, wrapper_process_ndx,
                   processes, launched, message>>
    /\ UNCHANGED <<flipVars, wrapVars, ivVars, fnVars>>

\* start_wrapper: Popen stores the new process in the handle of the chosen
\* index, whatever the handle held; a missing script or a failing Popen shows
\* an error and leaves the handle as it was
start_wrapper ==
    /\ launched + (IF upper(p2_index_lineedit) = "BOTH" THEN 2 ELSE 1) <= MaxLaunches
    /\ LET index_value == upper(p2_index_lineedit)
           first == launched + 1
           second == launched + 2
       IN  IF p2_index_lineedit = ""
           THEN /\ message' = "Missing Configuration"
                /\ UNCHANGED <<wrapper_process, wrapper_process_spx,
                               wrapper_process_ndx, processes, launched>>
           ELSE IF index_value \in {"SPX", "NDX"}
           THEN \E started \in BOOLEAN :
                   IF started
                   THEN /\ wrapper_process' = first
                        /\ processes' = processes \cup {first}
                        /\ launched' = first
                        /\ message' = "Wrapper Started"
                        /\ UNCHANGED <<wrapper_process_spx, wrapper_process_ndx>>
                   ELSE /\ message' = "Error"
                        /\ UNCHANGED <<wrapper_process, wrapper_process_spx,
                                       wrapper_process_ndx, processes, launched>>
           ELSE IF index_value = "BOTH"
           THEN \E started \in 0 .. 2 :
                   /\ wrapper_process_spx' = IF started >= 1 THEN first
                                             ELSE wrapper_process_spx
                   /\ wrapper_process_ndx' = IF started = 2 THEN second
                                             ELSE wrapper_process_ndx
                   /\ processes' = processes \cup {launched + i : i \in 1 .. started}
                   /\ launched' = launched + started
                   /\ message' = IF started = 2 THEN "Wrapper Started" ELSE "Error"
                   /\ UNCHANGED wrapper_process
           ELSE /\ message' = "Error"
                /\ UNCHANGED <<wrapper_process, wrapper_process_spx,
                               wrapper_process_ndx, processes, launched>>
    /\ UNCHANGED p2_index_lineedit
    /\ UNCHANGED <<flipVars, wrapVars, ivVars, fnVars>>

\* Popen.poll() is None: the process of the handle is still running
poll_is_None(handle) == handle \in processes

\* end_wrapper: each of the three handles that holds a running process is
\* terminated and cleared, in turn; a terminate() that raises shows an error
\* and ends the handler (raises names the handle, 0 for none)
end_wrapper ==
    /\ \E raises \in 0 .. 3 :
          LET live1 == wrapper_process # 0 /\ poll_is_None(wrapper_process)
              fail1 == live1 /\ raises = 1
              live2 == ~fail1 /\ wrapper_process_spx # 0
                              /\ poll_is_None(wrapper_process_spx)
              fail2 == live2 /\ raises = 2
              live3 == ~fail1 /\ ~fail2 /\ wrapper_process_ndx # 0
                              /\ poll_is_None(wrapper_process_ndx)
              fail3 == live3 /\ raises = 3
              stop1 == live1 /\ ~fail1
              stop2 == live2 /\ ~fail2
              stop3 == live3 /\ ~fail3
              terminated == stop1 \/ stop2 \/ stop3
          IN  /\ wrapper_process' = IF stop1 THEN 0 ELSE wrapper_process
              /\ wrapper_process_spx' = IF stop2 THEN 0 ELSE wrapper_process_spx
              /\ wrapper_process_ndx' = IF stop3 THEN 0 ELSE wrapper_process_ndx
              /\ processes' = processes \
                    ((IF stop1 THEN {wrapper_process} ELSE {}) \cup
                     (IF stop2 THEN {wrapper_process_spx} ELSE {}) \cup
                     (IF stop3 THEN {wrapper_process_ndx} ELSE {}))
              /\ message' = IF fail1 \/ fail2 \/ fail3 THEN "Error"
                            ELSE IF terminated THEN "Terminating Wrapper"
                            ELSE "Error 420"
    /\ UNCHANGED <<p2_index_lineedit, launched>>
    /\ UNCHANGED <<flipVars, wrapVars, ivVars, fnVars>>

\* a wrapper process ends by itself (main of wrapper.py raised, or it was
\* killed from outside the GUI)
wrapper_exits(p) ==
    /\ p \in processes
    /\ processes' = processes \ {p}
    /\ UNCHANGED <<p2_index_lineedit, wrapper_process, wrapper_process_spx,
                   wrapper_process_ndx, launched, message>>
    /\ UNCHANGED <<flipVars, wrapVars, ivVars, fnVars>>

NextGui ==
    \/ \E val \in indexes : set_index(val)
    \/ start_wrapper
    \/ end_wrapper
    \/ \E p \in 1 .. MaxLaunches : wrapper_exits(p)

SpecGui == InitGui /\ [][NextGui]_vars

\* C27: whatever the order of Start and End presses and index selections,
\* when end_wrapper has just reported "Terminating Wrapper(s)" no wrapper
\* process launched by start_wrapper is still running.
C27_NothingRunsAfterEnd == message = "Terminating Wrapper" => processes = {}

====
